---- MODULE Spec2Model ----
(***************************************************************************)
(* Model of the website generator's serving pipeline:                      *)
(*   SimpleMLModels          (src/simple_models.py)                        *)
(*   MLWebsiteGenerator      (src/generator_with_ml.py)                    *)
(*   SklearnWebsiteGenerator (src/ml_generator_sklearn.py)                 *)
(* and of the programs that scrape the sites and train the tables:         *)
(*   LightweightMLScraper    (src/scraper_ml.py)                           *)
(*   SimpleWebsiteScraper    (src/scraper.py)                              *)
(*   SklearnDataPreparator   (src/prepare_training_data.py)                *)
(*   SklearnModelTrainer     (src/train_models.py)                         *)
(* Python strings are TLA+ strings (concatenation is \o), Python lists are *)
(* sequences (index 0 of a list is index 1 of the sequence), a dict is a   *)
(* function, and a call that raises returns a record with status "raise".  *)
(***************************************************************************)
EXTENDS Integers, Sequences, FiniteSets, TLC

VARIABLES
    generator,            \* the object constructed, by the name of its class
    classifier_data,      \* SimpleMLModels.classifier_data: list of exemplars
    layout_templates,     \* SimpleMLModels.layout_templates: site_type -> list of templates
    component_variants,   \* SimpleMLModels.component_variants: key string -> variant
    sk_layout_templates,  \* SklearnWebsiteGenerator.layout_templates
    component_selectors,  \* SklearnWebsiteGenerator.component_selectors: kind -> variants its model predicts
    label_encoders,       \* SklearnWebsiteGenerator.label_encoders: encoder name -> classes_
    call,                 \* the last call made: its name and arguments
    ret,                  \* what the last call returned, or the exception it raised
    rendered,             \* the rendering a caller of dsl_to_html keeps to compare later ones with
    raw_data,             \* SklearnDataPreparator.raw_data: the scraped sites
    layout_generator_data,\* the file training/layout_generator_data.csv
    requests,             \* the generate_complete_dsl calls in progress: request -> its frame
    heap                  \* the list objects the requests created: object id -> items

vars == <<generator, classifier_data, layout_templates, component_variants,
          sk_layout_templates, component_selectors, label_encoders, call, ret,
          rendered, raw_data, layout_generator_data, requests, heap>>

store == <<generator, classifier_data, layout_templates, component_variants>>

sk_store == <<sk_layout_templates, component_selectors, label_encoders>>

training == <<raw_data, layout_generator_data>>

serving == <<requests, heap>>

-----------------------------------------------------------------------------
(* Bounds of the model                                                     *)

MaxExemplars == 2

MaxTemplates == 2

MaxRules == 2

MaxSections == 3

MaxCorpus == 3

MaxItems == 5

-----------------------------------------------------------------------------
(* Values                                                                  *)

Raise(exc) == [status |-> "raise", exc |-> exc]

NoCall == [op |-> "none"]

NoRet == [status |-> "none"]

\* No rendering is kept.
NoWatch == [first |-> NoRet]

\* A file that does not exist.
NoFile == [exists |-> FALSE]

\* No site was scraped and no training file written.
NoTraining ==
    /\ raw_data = <<>>
    /\ layout_generator_data = NoFile

\* No request is in progress and no list was created.
NoRequests ==
    /\ requests = <<>>
    /\ heap = <<>>

FlagNames == <<"has_navbar", "has_hero", "has_features", "has_footer">>

FlagSet == {FlagNames[i] : i \in 1..Len(FlagNames)}

\* A feature record: a dict from some of the four flag names to booleans;
\* features.get(flag) of a flag that is not a key is None.
FeatureRecords == UNION {[D -> BOOLEAN] : D \in SUBSET FlagSet}

SiteTypes == {"saas_landing", "portfolio"}

Styles == {"modern_gradient", "minimal_clean"}

\* The flag combinations of the exemplars: <<navbar, hero, features, footer>>.
ExemplarFlags ==
    {<<TRUE, TRUE, TRUE, TRUE>>, <<FALSE, FALSE, FALSE, FALSE>>,
     <<FALSE, TRUE, TRUE, FALSE>>, <<TRUE, FALSE, FALSE, TRUE>>}

Exemplars ==
    {[site_type |-> st, style |-> sty, has_navbar |-> f[1], has_hero |-> f[2],
      has_features |-> f[3], has_footer |-> f[4]] :
        st \in SiteTypes, sty \in Styles, f \in ExemplarFlags}

Range(s) == {s[i] : i \in 1..Len(s)}

SeqsUpTo(S, n) == UNION {[1..k -> S] : k \in 0..n}

-----------------------------------------------------------------------------
(* SimpleMLModels.classify_site                                            *)

\* features.get(flag) == example[flag]: None equals neither True nor False.
FlagMatches(features, example, flag) ==
    flag \in DOMAIN features /\ features[flag] = example[flag]

similarity(features, example) ==
    (IF FlagMatches(features, example, "has_navbar") THEN 1 ELSE 0)
    + (IF FlagMatches(features, example, "has_hero") THEN 1 ELSE 0)
    + (IF FlagMatches(features, example, "has_features") THEN 1 ELSE 0)
    + (IF FlagMatches(features, example, "has_footer") THEN 1 ELSE 0)

\* scores[site_type] after the first n exemplars of the loop.
RECURSIVE scores(_, _, _, _)
scores(data, features, site_type, n) ==
    IF n = 0 THEN 0
    ELSE scores(data, features, site_type, n - 1)
         + (IF data[n].site_type = site_type
            THEN similarity(features, data[n]) ELSE 0)

\* The keys of a dict filled by one pass over data, in insertion order.
RECURSIVE KeysInOrder(_, _, _)
KeysInOrder(data, field, n) ==
    IF n = 0 THEN <<>>
    ELSE LET before == KeysInOrder(data, field, n - 1)
             k == data[n][field]
         IN  IF \E i \in 1..Len(before) : before[i] = k
             THEN before ELSE Append(before, k)

\* The last key, in iteration order, whose value no other key exceeds.
MutMaxKeyLastTie(keys, value) ==
    LET i == CHOOSE i \in 1..Len(keys) :
                 /\ \A j \in 1..Len(keys) : value[keys[j]] <= value[keys[i]]
                 /\ \A j \in (i + 1)..Len(keys) : value[keys[j]] < value[keys[i]]
    IN  keys[i]

\* max(d.items(), key=lambda x: x[1])[0]: the first key, in iteration order,
\* whose value no other key exceeds.
MaxKey(keys, value) ==
    LET i == CHOOSE i \in 1..Len(keys) :
                 /\ \A j \in 1..Len(keys) : value[keys[j]] <= value[keys[i]]
                 /\ \A j \in 1..(i - 1) : value[keys[j]] < value[keys[i]]
    IN  keys[i]

\* sum(scores.values())
RECURSIVE SumScores(_, _, _)
SumScores(data, features, n) ==
    IF n = 0 THEN 0
    ELSE SumScores(data, features, n - 1) + similarity(features, data[n])

\* styles[style]: the exemplars of the site type that have the style.
RECURSIVE styles(_, _, _, _)
styles(data, site_type, style, n) ==
    IF n = 0 THEN 0
    ELSE styles(data, site_type, style, n - 1)
         + (IF data[n].site_type = site_type /\ data[n].style = style
            THEN 1 ELSE 0)

RECURSIVE OfSiteType(_, _, _)
OfSiteType(data, site_type, n) ==
    IF n = 0 THEN <<>>
    ELSE IF data[n].site_type = site_type
         THEN Append(OfSiteType(data, site_type, n - 1), data[n])
         ELSE OfSiteType(data, site_type, n - 1)

\* The styles counted over the exemplars of every site type.
MutBestStyleAnySiteType(data, site_type) ==
    LET keys == KeysInOrder(data, "style", Len(data))
        count == [s \in Range(keys) |->
                     Cardinality({i \in 1..Len(data) : data[i].style = s})]
    IN  IF keys # <<>> THEN MaxKey(keys, count) ELSE "minimal_clean"

\* The style of the first exemplar of the site type, whatever the counts.
MutBestStyleFirstSeen(data, site_type) ==
    LET mine == OfSiteType(data, site_type, Len(data))
    IN  IF mine # <<>> THEN mine[1].style ELSE "minimal_clean"

best_style(data, site_type) ==
    LET mine == OfSiteType(data, site_type, Len(data))
        keys == KeysInOrder(mine, "style", Len(mine))
        count == [s \in Range(keys) |-> styles(data, site_type, s, Len(data))]
    IN  IF keys # <<>> THEN MaxKey(keys, count) ELSE "minimal_clean"

\* A confidence is the quotient num / den of two integers, den > 0.
classify_site(data, features) ==
    LET n == Len(data)
        keys == KeysInOrder(data, "site_type", n)
        total == [st \in Range(keys) |-> scores(data, features, st, n)]
    IN  IF keys = <<>> THEN Raise("ValueError")        \* max() of an empty sequence
        ELSE LET best_site_type == MaxKey(keys, total)
                 sum == SumScores(data, features, n)
             IN  IF sum = 0 THEN Raise("ZeroDivisionError")
                 ELSE [status |-> "ok",
                       site_type |-> best_site_type,
                       style |-> best_style(data, best_site_type),
                       confidence |-> [num |-> total[best_site_type], den |-> sum]]

ClassifySite(features) ==
    /\ generator = "MLWebsiteGenerator"
    /\ call' = [op |-> "classify_site", features |-> features]
    /\ ret' = classify_site(classifier_data, features)
    /\ UNCHANGED <<store, sk_store, rendered, training, serving>>

-----------------------------------------------------------------------------
(* The classifier alone: SimpleMLModels() loads a classifier_data.json of  *)
(* at most MaxExemplars exemplars, then classify_site is called.           *)

EmptyStore ==
    /\ classifier_data = <<>>
    /\ layout_templates = <<>>
    /\ component_variants = <<>>

EmptySkStore ==
    /\ sk_layout_templates = <<>>
    /\ component_selectors = <<>>
    /\ label_encoders = [component_site_type |-> {}, component_style |-> {},
                         site_type |-> {}, style |-> {}]

InitClassifier ==
    /\ generator = "MLWebsiteGenerator"
    /\ classifier_data \in SeqsUpTo(Exemplars, MaxExemplars)
    /\ layout_templates = <<>>
    /\ component_variants = <<>>
    /\ EmptySkStore
    /\ call = NoCall
    /\ ret = NoRet
    /\ rendered = NoWatch
    /\ NoTraining
    /\ NoRequests

NextClassifier == \E features \in FeatureRecords : ClassifySite(features)

SpecClassifier == InitClassifier /\ [][NextClassifier]_vars

-----------------------------------------------------------------------------
(* Claims about classify_site                                              *)

IsUnitConfidence(c) == c.den > 0 /\ 0 <= c.num /\ c.num <= c.den

\* C1: for every feature record and every exemplar list, classify_site
\* returns a result whose confidence is defined and lies in [0, 1].
C1_ConfidenceInUnitInterval ==
    call.op = "classify_site" =>
        ret.status = "ok" /\ IsUnitConfidence(ret.confidence)

\* C2: with zero exemplars classify_site does not raise and returns the
\* all-default result: site_type 'other', style 'minimal_clean', and a
\* defined confidence.
C2_EmptyStoreReturnsDefaults ==
    (call.op = "classify_site" /\ classifier_data = <<>>) =>
        /\ ret.status = "ok"
        /\ ret.site_type = "other"
        /\ ret.style = "minimal_clean"
        /\ ret.confidence.den > 0

\* C3: with a non-empty exemplar list whose similarity totals sum to 0,
\* classify_site returns confidence 0 with the fallback site_type 'other'
\* instead of failing.
C3_ZeroTotalReturnsZeroConfidence ==
    (/\ call.op = "classify_site"
     /\ classifier_data # <<>>
     /\ SumScores(classifier_data, call.features, Len(classifier_data)) = 0) =>
        /\ ret.status = "ok"
        /\ ret.confidence.num = 0
        /\ ret.site_type = "other"

-----------------------------------------------------------------------------
(* classify_site on a corpus of up to MaxCorpus exemplars that have a       *)
(* navbar and a footer, queried with the complete feature records.         *)

CompleteExemplars ==
    {e \in Exemplars : e.has_navbar /\ e.has_hero /\ e.has_features /\ e.has_footer}

InitCorpus ==
    /\ generator = "MLWebsiteGenerator"
    /\ classifier_data \in SeqsUpTo({e \in Exemplars : e.has_navbar /\ e.has_footer},
                                     MaxCorpus)
    /\ layout_templates = <<>>
    /\ component_variants = <<>>
    /\ EmptySkStore
    /\ call = NoCall
    /\ ret = NoRet
    /\ rendered = NoWatch
    /\ NoTraining
    /\ NoRequests

NextCorpus == \E features \in [FlagSet -> BOOLEAN] : ClassifySite(features)

SpecCorpus == InitCorpus /\ [][NextCorpus]_vars

\* The number of exemplars of the corpus with the style.
StyleCount(style) ==
    Cardinality({i \in 1..Len(classifier_data) : classifier_data[i].style = style})

\* The corpus is not empty and each exemplar is a 'saas_landing' site with
\* the four flags true; the record classified has the four flags true.
SaasScenario ==
    /\ call.op = "classify_site"
    /\ call.features = [flag \in FlagSet |-> TRUE]
    /\ classifier_data # <<>>
    /\ \A i \in 1..Len(classifier_data) :
           /\ classifier_data[i].site_type = "saas_landing"
           /\ \A flag \in FlagSet : classifier_data[i][flag]

\* C14: for a feature record with the four flags true and a non-empty
\* corpus whose exemplars are all 'saas_landing' with the four flags true,
\* classify_site returns site_type 'saas_landing', the style that occurs
\* most often among the exemplars, and a confidence above 0.5.
C14_SaasScenario ==
    SaasScenario =>
        /\ ret.status = "ok"
        /\ ret.site_type = "saas_landing"
        /\ \A style \in Styles : StyleCount(style) <= StyleCount(ret.style)
        /\ 2 * ret.confidence.num > ret.confidence.den

\* C14 witness: three such exemplars, the first of the minority style, and
\* the majority style was returned.
C14_Witness ==
    /\ SaasScenario
    /\ Len(classifier_data) = 3
    /\ StyleCount(classifier_data[1].style) = 1
    /\ ret.status = "ok"
    /\ ret.style = classifier_data[2].style

\* The indices of the exemplars of the corpus with the site type.
IndicesOf(site_type) ==
    {i \in 1..Len(classifier_data) : classifier_data[i].site_type = site_type}

\* The sum, over the exemplars of the site type, of the number of flags on
\* which the exemplar agrees with the record of the last call.
TotalOf(site_type) ==
    Cardinality({<<i, flag>> \in IndicesOf(site_type) \X FlagSet :
                    /\ flag \in DOMAIN call.features
                    /\ call.features[flag] = classifier_data[i][flag]})

\* The least element of a non-empty set of indices.
First(indices) == CHOOSE i \in indices : \A j \in indices : i <= j

\* C21: classify_site scores each exemplar by the number of the four flags
\* on which it agrees with the feature record, sums the scores per
\* site_type and returns a site_type of maximum total; among several site
\* types of maximum total it returns the one whose first exemplar is
\* earliest in the list.
C21_MaxTotalFirstSeen ==
    (call.op = "classify_site" /\ ret.status = "ok") =>
        /\ IndicesOf(ret.site_type) # {}
        /\ ret.confidence.num = TotalOf(ret.site_type)
        /\ \A st \in SiteTypes :
               IndicesOf(st) # {} =>
                   /\ TotalOf(st) <= TotalOf(ret.site_type)
                   /\ (TotalOf(st) = TotalOf(ret.site_type) /\ st # ret.site_type) =>
                          First(IndicesOf(ret.site_type)) < First(IndicesOf(st))

\* C21 witness: one 'portfolio' exemplar followed by two 'saas_landing'
\* exemplars reached the same total, and 'portfolio' was returned.
C21_Witness ==
    /\ call.op = "classify_site"
    /\ Len(classifier_data) = 3
    /\ IndicesOf("portfolio") = {1}
    /\ TotalOf("portfolio") = 4
    /\ TotalOf("saas_landing") = 4
    /\ ret.status = "ok"
    /\ ret.site_type = "portfolio"

\* The indices of the exemplars of the site type that have the style.
StyleIndices(site_type, style) ==
    {i \in IndicesOf(site_type) : classifier_data[i].style = style}

\* C22: the style classify_site returns is the style that occurs most often
\* among the exemplars of the winning site_type, a tie going to the style
\* met first among those exemplars; when no exemplar has the winning
\* site_type the style is 'minimal_clean'.
C22_MajorityStyleFirstSeen ==
    (call.op = "classify_site" /\ ret.status = "ok") =>
        IF IndicesOf(ret.site_type) = {} THEN ret.style = "minimal_clean"
        ELSE LET mine == StyleIndices(ret.site_type, ret.style)
             IN  /\ mine # {}
                 /\ \A style \in Styles \ {ret.style} :
                        LET other == StyleIndices(ret.site_type, style)
                        IN  /\ Cardinality(other) <= Cardinality(mine)
                            /\ (other # {} /\ Cardinality(other) = Cardinality(mine)) =>
                                   First(mine) < First(other)

\* C22 witness: the winning site type has one exemplar of each style, the
\* 'modern_gradient' one first, the corpus as a whole has more
\* 'minimal_clean' exemplars, and 'modern_gradient' was returned.
C22_Witness ==
    /\ call.op = "classify_site"
    /\ ret.status = "ok"
    /\ Len(classifier_data) = 3
    /\ IndicesOf(ret.site_type) = {1, 2}
    /\ classifier_data[1].style = "modern_gradient"
    /\ classifier_data[2].style = "minimal_clean"
    /\ classifier_data[3].style = "minimal_clean"
    /\ ret.style = "modern_gradient"

-----------------------------------------------------------------------------
(* The Layout Selector: SimpleMLModels.generate_layout, and the lookup     *)
(* inside SklearnWebsiteGenerator.generate_from_description                *)

Ok(value) == [status |-> "ok", value |-> value]

\* The site types a caller asks for; 'art_gallery' is in no table.
QuerySiteTypes == SiteTypes \cup {"art_gallery"}

\* The templates a layout_templates.json holds: 'gallery' has no renderer.
Templates ==
    {<<>>,
     <<"navbar", "hero", "features", "footer">>,
     <<"navbar", "gallery", "footer">>}

\* The templates train_layout_generator writes: layout.split(',') of a
\* sections string that value_counts() kept is never an empty list.
SkTemplates == Templates \ {<<>>}

LayoutTables(T) ==
    UNION {[D -> SeqsUpTo(T, MaxTemplates)] : D \in SUBSET SiteTypes}

MutLastTemplate(templates, site_type, style) ==
    IF site_type \in DOMAIN templates
    THEN IF templates[site_type] = <<>> THEN Raise("IndexError")
         ELSE Ok(templates[site_type][Len(templates[site_type])])
    ELSE Ok(<<"navbar", "hero", "features", "footer">>)

generate_layout(templates, site_type, style) ==
    IF site_type \in DOMAIN templates
    THEN IF templates[site_type] = <<>> THEN Raise("IndexError")  \* [][0]
         ELSE Ok(templates[site_type][1])
    ELSE Ok(<<"navbar", "hero", "features", "footer">>)

\* ml_generator_sklearn.py lines 53-57: the same lookup, inline.
sklearn_layout(templates, site_type) ==
    IF site_type \in DOMAIN templates
    THEN IF templates[site_type] = <<>> THEN Raise("IndexError")
         ELSE Ok(templates[site_type][1])
    ELSE Ok(<<"navbar", "hero", "features", "footer">>)

GenerateLayout(site_type, style) ==
    /\ generator = "MLWebsiteGenerator"
    /\ call' = [op |-> "generate_layout", site_type |-> site_type, style |-> style]
    /\ ret' = generate_layout(layout_templates, site_type, style)
    /\ UNCHANGED <<store, sk_store, rendered, training, serving>>

SklearnLayout(site_type) ==
    /\ generator = "SklearnWebsiteGenerator"
    /\ call' = [op |-> "sklearn_layout", site_type |-> site_type]
    /\ ret' = sklearn_layout(sk_layout_templates, site_type)
    /\ UNCHANGED <<store, sk_store, rendered, training, serving>>

InitLayout ==
    /\ call = NoCall
    /\ ret = NoRet
    /\ rendered = NoWatch
    /\ NoTraining
    /\ NoRequests
    /\ \/ /\ generator = "MLWebsiteGenerator"
          /\ classifier_data = <<>>
          /\ layout_templates \in LayoutTables(Templates)
          /\ component_variants = <<>>
          /\ EmptySkStore
       \/ /\ generator = "SklearnWebsiteGenerator"
          /\ EmptyStore
          /\ sk_layout_templates \in LayoutTables(SkTemplates)
          /\ component_selectors = <<>>
          /\ label_encoders = [component_site_type |-> {}, component_style |-> {},
                               site_type |-> {}, style |-> {}]

NextLayout ==
    \/ \E site_type \in QuerySiteTypes, style \in Styles :
           GenerateLayout(site_type, style)
    \/ \E site_type \in QuerySiteTypes : SklearnLayout(site_type)

SpecLayout == InitLayout /\ [][NextLayout]_vars

-----------------------------------------------------------------------------
(* Claims about the Layout Selector                                        *)

LayoutCall == call.op \in {"generate_layout", "sklearn_layout"}

TableOfCall ==
    IF call.op = "generate_layout" THEN layout_templates ELSE sk_layout_templates

\* C5: the Layout Selector (generate_layout and the lookup of the sklearn
\* generator) returns the template at index 0 of the site_type's stored
\* list when the site_type is in the table (and the list has an index 0),
\* and exactly [navbar, hero, features, footer] when the site_type is absent.
C5_LayoutIsFirstTemplateOrDefault ==
    LayoutCall =>
        /\ (call.site_type \in DOMAIN TableOfCall
            /\ Len(TableOfCall[call.site_type]) >= 1) =>
               ret = [status |-> "ok", value |-> Head(TableOfCall[call.site_type])]
        /\ call.site_type \notin DOMAIN TableOfCall =>
               ret = [status |-> "ok",
                      value |-> <<"navbar", "hero", "features", "footer">>]

\* C5 witness: a site type with two different stored templates was looked
\* up and the one at index 0 came back.
C5_Witness ==
    /\ call.op = "generate_layout"
    /\ call.site_type \in DOMAIN layout_templates
    /\ Len(layout_templates[call.site_type]) = 2
    /\ layout_templates[call.site_type][1] # layout_templates[call.site_type][2]
    /\ ret.status = "ok"
    /\ ret.value = layout_templates[call.site_type][1]

\* C6: for every site_type and every content of the layout-template table,
\* the Layout Selector returns a non-empty sequence and does not raise.
C6_LayoutNeverEmpty ==
    LayoutCall => ret.status = "ok" /\ Len(ret.value) >= 1

-----------------------------------------------------------------------------
(* The Variant Selector: SimpleMLModels.select_variant and                 *)
(* SklearnWebsiteGenerator.select_variant_sklearn                          *)

\* The section kinds asked for; 'pricing' has no static default of its own.
Kinds == {"navbar", "hero", "features", "footer", "pricing"}

\* The styles a caller asks for; 'dark_mode' is in no rule and no encoder.
QueryStyles == Styles \cup {"dark_mode"}

\* f"{site_type}_{style}_{component_type}"
variant_key(site_type, style, component_type) ==
    site_type \o "_" \o style \o "_" \o component_type

\* defaults.get(component_type, 'default')
default_variant(component_type) ==
    CASE component_type = "navbar" -> "solid"
      [] component_type = "hero" -> "centered_cta"
      [] component_type = "features" -> "grid_3col"
      [] component_type = "footer" -> "minimal"
      [] OTHER -> "default"

MutSelectVariantNoFooterDefault(variants, site_type, style, component_type) ==
    LET key == variant_key(site_type, style, component_type)
    IN  IF key \in DOMAIN variants THEN Ok(variants[key])
        ELSE IF component_type = "footer" THEN Ok("default")
        ELSE Ok(default_variant(component_type))

select_variant(variants, site_type, style, component_type) ==
    LET key == variant_key(site_type, style, component_type)
    IN  IF key \in DOMAIN variants THEN Ok(variants[key])
        ELSE Ok(default_variant(component_type))

\* The outcomes of select_variant_sklearn. A trained selector is an opaque
\* scorer: predict() yields one of the classes the model was fitted on, so
\* each of them is a possible outcome. LabelEncoder.transform raises
\* ValueError on a label that is not among its classes_.
select_variant_sklearn(selectors, encoders, site_type, style, component_type) ==
    IF component_type \notin DOMAIN selectors
    THEN {Ok(default_variant(component_type))}
    ELSE IF site_type \notin encoders.component_site_type
         THEN {Raise("ValueError")}
    ELSE IF style \notin encoders.component_style
         THEN {Raise("ValueError")}
    ELSE {Ok(variant) : variant \in selectors[component_type]}

SelectVariant(site_type, style, component_type) ==
    /\ generator = "MLWebsiteGenerator"
    /\ call' = [op |-> "select_variant", site_type |-> site_type,
                style |-> style, component_type |-> component_type]
    /\ ret' = select_variant(component_variants, site_type, style, component_type)
    /\ UNCHANGED <<store, sk_store, rendered, training, serving>>

SelectVariantSklearn(site_type, style, component_type) ==
    /\ generator = "SklearnWebsiteGenerator"
    /\ call' = [op |-> "select_variant_sklearn", site_type |-> site_type,
                style |-> style, component_type |-> component_type]
    /\ ret' \in select_variant_sklearn(component_selectors, label_encoders,
                                       site_type, style, component_type)
    /\ UNCHANGED <<store, sk_store, rendered, training, serving>>

\* The rules of a component_variants.json: at most MaxRules keys.
RuleKinds == {"navbar", "hero", "pricing"}

RuleKeys ==
    {variant_key(st, sty, k) : st \in SiteTypes, sty \in Styles, k \in RuleKinds}

RuleVariants == {"transparent", "split_screen_with_image"}

VariantTables ==
    UNION {[D -> RuleVariants] :
               D \in {K \in SUBSET RuleKeys : Cardinality(K) <= MaxRules}}

\* train_component_selector keeps a model for a kind only when its examples
\* show two variants or more (train_models.py:160); the variants of a kind
\* are those infer_variant gives it.
SelectorClasses(kind) ==
    IF kind = "navbar" THEN {{"transparent", "solid"}}
    ELSE {{"split_screen_with_image", "centered_cta"},
          {"split_screen_with_image", "centered_cta", "minimal_text"}}

SelectorTables ==
    UNION {{f \in [D -> SUBSET {"transparent", "solid", "split_screen_with_image",
                                "centered_cta", "minimal_text"}] :
                \A k \in D : f[k] \in SelectorClasses(k)} :
               D \in SUBSET {"navbar", "hero"}}

\* The classes_ of the encoders fitted on the component data.
EncoderTables ==
    [component_site_type : SUBSET SiteTypes \ {{}},
     component_style : SUBSET Styles \ {{}},
     site_type : {SiteTypes}, style : {Styles}]

InitVariant ==
    /\ call = NoCall
    /\ ret = NoRet
    /\ rendered = NoWatch
    /\ NoTraining
    /\ NoRequests
    /\ \/ /\ generator = "MLWebsiteGenerator"
          /\ classifier_data = <<>>
          /\ layout_templates = <<>>
          /\ component_variants \in VariantTables
          /\ EmptySkStore
       \/ /\ generator = "SklearnWebsiteGenerator"
          /\ EmptyStore
          /\ sk_layout_templates = <<>>
          /\ component_selectors \in SelectorTables
          /\ label_encoders \in EncoderTables

NextVariant ==
    \/ \E site_type \in QuerySiteTypes, style \in QueryStyles, kind \in Kinds :
           SelectVariant(site_type, style, kind)
    \/ \E site_type \in QuerySiteTypes, style \in QueryStyles, kind \in Kinds :
           SelectVariantSklearn(site_type, style, kind)

SpecVariant == InitVariant /\ [][NextVariant]_vars

-----------------------------------------------------------------------------
(* Claims about the Variant Selector                                       *)

\* C7: select_variant returns the stored variant when the table has an
\* entry under the key of exactly the (site_type, style, section_kind)
\* triple, and otherwise the static default of the kind: navbar 'solid',
\* hero 'centered_cta', features 'grid_3col', footer 'minimal', any other
\* kind 'default'.
C7_StoredVariantOrStaticDefault ==
    call.op = "select_variant" =>
        LET key == variant_key(call.site_type, call.style, call.component_type)
            kind == call.component_type
        IN  /\ ret.status = "ok"
            /\ key \in DOMAIN component_variants =>
                   ret.value = component_variants[key]
            /\ key \notin DOMAIN component_variants =>
                   /\ kind = "navbar" => ret.value = "solid"
                   /\ kind = "hero" => ret.value = "centered_cta"
                   /\ kind = "features" => ret.value = "grid_3col"
                   /\ kind = "footer" => ret.value = "minimal"
                   /\ kind \notin {"navbar", "hero", "features", "footer"} =>
                          ret.value = "default"

\* C7 witness: the table holds a rule under the key of the triple asked
\* for, and the stored variant, which is not the kind's static default,
\* came back.
C7_Witness ==
    /\ call.op = "select_variant"
    /\ call.component_type = "hero"
    /\ variant_key(call.site_type, call.style, "hero") \in DOMAIN component_variants
    /\ ret = [status |-> "ok", value |-> "transparent"]

\* C8: for every (site_type, style, section_kind) triple, also of site types
\* and styles absent from the component training data, select_variant and
\* select_variant_sklearn return a non-empty variant string without raising.
C8_VariantAlwaysDefined ==
    call.op \in {"select_variant", "select_variant_sklearn"} =>
        ret.status = "ok" /\ Len(ret.value) >= 1

-----------------------------------------------------------------------------
(* Python string methods, on the characters a description is made of       *)

UpperCase == "ABCDEFGHIJKLMNOPQRSTUVWXYZ"

LowerCase == "abcdefghijklmnopqrstuvwxyz"

CharAt(s, i) == SubSeq(s, i, i)

\* c translated from the alphabet `from` to the alphabet `to`, else c.
Translate(c, from, to) ==
    IF \E i \in 1..Len(from) : CharAt(from, i) = c
    THEN CharAt(to, CHOOSE i \in 1..Len(from) : CharAt(from, i) = c)
    ELSE c

\* str.lower()
RECURSIVE lower(_)
lower(s) ==
    IF Len(s) = 0 THEN ""
    ELSE Translate(CharAt(s, 1), UpperCase, LowerCase) \o lower(SubSeq(s, 2, Len(s)))

\* word in s
Contains(s, word) ==
    \E i \in 1..(Len(s) - Len(word) + 1) : SubSeq(s, i, i + Len(word) - 1) = word

\* str.split(): the maximal runs of non-blank characters of s from index i
\* on, cur being the run read so far.
RECURSIVE split(_, _, _)
split(s, i, cur) ==
    IF i > Len(s) THEN (IF cur = "" THEN <<>> ELSE <<cur>>)
    ELSE IF CharAt(s, i) = " "
         THEN (IF cur = "" THEN <<>> ELSE <<cur>>) \o split(s, i + 1, "")
         ELSE split(s, i + 1, cur \o CharAt(s, i))

\* words[:n]
FirstN(words, n) == SubSeq(words, 1, IF Len(words) < n THEN Len(words) ELSE n)

\* ' '.join(words)
RECURSIVE join(_)
join(words) ==
    IF words = <<>> THEN ""
    ELSE IF Len(words) = 1 THEN words[1]
    ELSE words[1] \o " " \o join(Tail(words))

\* str.title() of a string of letters and blanks: each word capitalised.
RECURSIVE title(_, _)
title(s, start) ==
    IF Len(s) = 0 THEN ""
    ELSE LET c == CharAt(s, 1)
         IN  (IF c = " " THEN c
              ELSE IF start THEN Translate(c, LowerCase, UpperCase)
              ELSE Translate(c, UpperCase, LowerCase))
             \o title(SubSeq(s, 2, Len(s)), c = " ")

-----------------------------------------------------------------------------
(* The Component Renderer and the Page Renderer:                           *)
(* MLWebsiteGenerator.dsl_to_html and the generate_* renderers             *)

\* self.components: the kinds with a registered renderer.
components ==
    {"navbar", "hero", "features", "footer", "pricing", "testimonials", "contact"}

default_colors == [primary |-> "#667eea", secondary |-> "#764ba2"]

get_colors_for_style(style) ==
    CASE style = "modern_gradient" -> [primary |-> "#667eea", secondary |-> "#764ba2"]
      [] style = "minimal_clean" -> [primary |-> "#2d3748", secondary |-> "#4a5568"]
      [] style = "bold_colorful" -> [primary |-> "#f56565", secondary |-> "#ed8936"]
      [] style = "dark_mode" -> [primary |-> "#1a202c", secondary |-> "#2d3748"]
      [] style = "glassmorphism" -> [primary |-> "#667eea", secondary |-> "#764ba2"]
      [] OTHER -> default_colors

\* A fragment is the markup a renderer returns, by the parts of it that
\* vary: the element, the branch of the variant test, the colours and the
\* texts interpolated. primary and secondary are the colours read from
\* get_colors_for_style; accent is the colour written as a literal for the
\* buttons and the highlighted border.
generate_navbar(variant, dsl, description) ==
    [element |-> "nav",
     treatment |-> IF variant = "transparent" THEN "transparent" ELSE "solid",
     primary |-> get_colors_for_style(dsl.style).primary]

generate_hero(variant, dsl, description) ==
    [element |-> "section",
     heading |-> title(join(FirstN(split(description, 1, ""), 5)), TRUE),
     text |-> description,
     treatment |-> IF variant = "split_screen_with_image"
                   THEN "split_screen_with_image" ELSE "centered_cta",
     primary |-> get_colors_for_style(dsl.style).primary,
     secondary |-> get_colors_for_style(dsl.style).secondary]

generate_features(variant, dsl, description) ==
    [element |-> "section",
     heading |-> "Features",
     treatment |-> IF variant = "grid_4col" THEN "grid_4col" ELSE "grid_3col",
     items |-> IF variant = "grid_4col"
               THEN <<"Fast", "Beautiful", "Responsive", "Secure">>
               ELSE <<"Fast", "Beautiful", "Responsive">>]

generate_pricing(variant, dsl, description) ==
    [element |-> "section", heading |-> "Pricing", accent |-> "#667eea"]

generate_testimonials(variant, dsl, description) ==
    [element |-> "section", heading |-> "What People Say"]

generate_contact(variant, dsl, description) ==
    [element |-> "section", heading |-> "Get In Touch", accent |-> "#667eea"]

\* The footer written as if 'minimal' were the variant tested for.
MutFooterDetailedUnlessMinimal(variant, dsl, description) ==
    [element |-> "footer",
     treatment |-> IF variant = "minimal" THEN "minimal" ELSE "detailed"]

generate_footer(variant, dsl, description) ==
    [element |-> "footer",
     treatment |-> IF variant = "detailed" THEN "detailed" ELSE "minimal"]

\* self.components[section_type](variant, dsl, description)
render(section_type, variant, dsl, description) ==
    CASE section_type = "navbar" -> generate_navbar(variant, dsl, description)
      [] section_type = "hero" -> generate_hero(variant, dsl, description)
      [] section_type = "features" -> generate_features(variant, dsl, description)
      [] section_type = "footer" -> generate_footer(variant, dsl, description)
      [] section_type = "pricing" -> generate_pricing(variant, dsl, description)
      [] section_type = "testimonials" -> generate_testimonials(variant, dsl, description)
      [] section_type = "contact" -> generate_contact(variant, dsl, description)

\* sections_html after the first n sections of the loop. Beside the markup,
\* a fragment carries the section it was rendered from.
RECURSIVE MutSectionsHtmlNewestFirst(_, _, _)
MutSectionsHtmlNewestFirst(dsl, description, n) ==
    IF n = 0 THEN <<>>
    ELSE LET section == dsl.sections[n]
             before == MutSectionsHtmlNewestFirst(dsl, description, n - 1)
         IN  IF section.type \in components
             THEN <<[of |-> n,
                     html |-> render(section.type, section.variant, dsl, description)]>>
                  \o before
             ELSE before

RECURSIVE sections_html(_, _, _)
sections_html(dsl, description, n) ==
    IF n = 0 THEN <<>>
    ELSE LET section == dsl.sections[n]
             before == sections_html(dsl, description, n - 1)
         IN  IF section.type \in components
             THEN Append(before,
                         [of |-> n,
                          html |-> render(section.type, section.variant, dsl, description)])
             ELSE before

\* sections_html kept on the object from one call to the next.
MutDslToHtmlKeepsFragments(dsl, description) ==
    [title |-> "Generated Website - " \o dsl.site_type,
     body |-> (IF call.op = "dsl_to_html" THEN ret.value.body ELSE <<>>)
              \o sections_html(dsl, description, Len(dsl.sections))]

\* The document: the shell's title and the fragments joined in <body>.
dsl_to_html(dsl, description) ==
    [title |-> "Generated Website - " \o dsl.site_type,
     body |-> sections_html(dsl, description, Len(dsl.sections))]

\* What the caller of dsl_to_html receives: the document's text, without
\* the record of which section each fragment came from.
Markup(document) ==
    [title |-> document.title,
     body |-> [i \in 1..Len(document.body) |-> document.body[i].html]]

\* A caller that compares the renderings of one DSL and description: it
\* keeps the markup of the first, and notes whether other inputs were
\* rendered after it (between) and whether the input was rendered again.
Watch(dsl, description) ==
    [dsl |-> dsl, description |-> description, first |-> NoRet,
     between |-> FALSE, again |-> FALSE]

Watched(dsl, description) ==
    /\ rendered # NoWatch
    /\ rendered.dsl = dsl
    /\ rendered.description = description

Record(dsl, description, document) ==
    IF rendered = NoWatch THEN rendered
    ELSE IF Watched(dsl, description)
         THEN IF rendered.first = NoRet
              THEN [rendered EXCEPT !.first = Ok(Markup(document))]
              ELSE [rendered EXCEPT !.again = TRUE]
         ELSE IF rendered.first # NoRet /\ ~rendered.again
              THEN [rendered EXCEPT !.between = TRUE]
              ELSE rendered

DslToHtml(dsl, description) ==
    /\ call' = [op |-> "dsl_to_html", dsl |-> dsl, description |-> description]
    /\ ret' = Ok(dsl_to_html(dsl, description))
    /\ rendered' = Record(dsl, description, dsl_to_html(dsl, description))
    /\ UNCHANGED <<store, sk_store, training, serving>>

\* The descriptions a caller gives.
Descriptions == {"", "Landing Services", "a shop for my big red hats"}

\* The DSLs handed to dsl_to_html: the assembler's, or one loaded from
\* storage; 'gallery' has no renderer.
SectionChoices ==
    {[type |-> "navbar", variant |-> "transparent"],
     [type |-> "hero", variant |-> "centered_cta"],
     [type |-> "gallery", variant |-> "default"]}

Positioned(choices) ==
    [i \in 1..Len(choices) |->
        [type |-> choices[i].type, position |-> i - 1, variant |-> choices[i].variant]]

DSLs ==
    {[site_type |-> "portfolio", style |-> sty, confidence |-> [num |-> 1, den |-> 1],
      sections |-> Positioned(choices)] :
        sty \in Styles, choices \in SeqsUpTo(SectionChoices, MaxSections)}

InitRenderer ==
    /\ call = NoCall
    /\ ret = NoRet
    /\ rendered = NoWatch
    /\ NoTraining
    /\ NoRequests
    /\ generator \in {"MLWebsiteGenerator", "SklearnWebsiteGenerator"}
    /\ EmptyStore
    /\ EmptySkStore

RenderedDescriptions == {"", "a shop for my big red hats"}

NextRenderer ==
    \E dsl \in DSLs, description \in RenderedDescriptions : DslToHtml(dsl, description)

SpecRenderer == InitRenderer /\ [][NextRenderer]_vars

-----------------------------------------------------------------------------
(* Claims about the Page Renderer                                          *)

\* The indices of the sections of the DSL whose kind has a renderer, in
\* increasing order.
RECURSIVE RegisteredIndices(_, _)
RegisteredIndices(sections, n) ==
    IF n = 0 THEN <<>>
    ELSE IF sections[n].type \in
              {"navbar", "hero", "features", "footer", "pricing", "testimonials", "contact"}
         THEN Append(RegisteredIndices(sections, n - 1), n)
         ELSE RegisteredIndices(sections, n - 1)

\* C10: dsl_to_html renders exactly the sections whose kind is in the
\* component registry, skips every unregistered kind without raising, and
\* emits the fragments in the relative order of their sections in the DSL
\* (so two registered kinds and one unregistered kind give two fragments).
C10_RendersRegisteredKindsInOrder ==
    call.op = "dsl_to_html" =>
        LET kept == RegisteredIndices(call.dsl.sections, Len(call.dsl.sections))
        IN  /\ ret.status = "ok"
            /\ Len(ret.value.body) = Len(kept)
            /\ \A i \in 1..Len(kept) : ret.value.body[i].of = kept[i]

\* C10 witness: a DSL of three sections, two of registered kinds around one
\* of an unregistered kind, was rendered into exactly two fragments.
C10_Witness ==
    /\ call.op = "dsl_to_html"
    /\ Len(call.dsl.sections) = 3
    /\ call.dsl.sections[1].type = "navbar"
    /\ call.dsl.sections[2].type = "gallery"
    /\ call.dsl.sections[3].type = "hero"
    /\ ret.status = "ok"
    /\ Len(ret.value.body) = 2

\* The number of sections of the DSL that the loop of dsl_to_html skips.
Dropped(dsl) ==
    Len(dsl.sections) - Len(RegisteredIndices(dsl.sections, Len(dsl.sections)))

\* C11: when dsl_to_html drops sections whose kind has no renderer, the drop
\* is counted or reported: what the call gives back determines how many
\* sections were not rendered, so no DSL with a different number of dropped
\* sections yields the same markup.
C11_DropsAreReported ==
    call.op = "dsl_to_html" =>
        \A other \in DSLs :
            Markup(dsl_to_html(other, call.description)) = Markup(ret.value)
                => Dropped(other) = Dropped(call.dsl)

\* The inputs a caller renders repeatedly: the DSLs of at most one section.
RepeatedDSLs == {dsl \in DSLs : Len(dsl.sections) <= 1}

InitDeterminism ==
    /\ call = NoCall
    /\ ret = NoRet
    /\ NoTraining
    /\ NoRequests
    /\ rendered \in {Watch(dsl, description) :
                        dsl \in RepeatedDSLs, description \in RenderedDescriptions}
    /\ generator \in {"MLWebsiteGenerator", "SklearnWebsiteGenerator"}
    /\ EmptyStore
    /\ EmptySkStore

NextDeterminism ==
    \E dsl \in RepeatedDSLs, description \in RenderedDescriptions :
        DslToHtml(dsl, description)

SpecDeterminism == InitDeterminism /\ [][NextDeterminism]_vars

-----------------------------------------------------------------------------
(* The section renderers called one by one, as dsl_to_html calls them:     *)
(* self.components[section_type](variant, dsl, description)                *)

RenderSection(section_type, variant, dsl, description) ==
    /\ call' = [op |-> "render", section_type |-> section_type, variant |-> variant,
                dsl |-> dsl, description |-> description]
    /\ ret' = Ok(render(section_type, variant, dsl, description))
    /\ UNCHANGED <<store, sk_store, rendered, training, serving>>

\* The variant strings a section may carry: those infer_variant and the
\* static defaults produce, and strings no renderer tests for.
VariantStrings ==
    {"transparent", "solid", "split_screen_with_image", "centered_cta", "minimal_text",
     "grid_4col", "grid_3col", "detailed", "minimal", "default", "", "carousel"}

NextComponent ==
    \E section_type \in components, variant \in VariantStrings,
       dsl \in {d \in DSLs : d.sections = <<>>}, description \in RenderedDescriptions :
        RenderSection(section_type, variant, dsl, description)

SpecComponent == InitRenderer /\ [][NextComponent]_vars

\* The one variant of each kind that its renderer tests for, and the
\* default treatment the claim names for the kind.
TestedVariant ==
    [navbar |-> "transparent", hero |-> "split_screen_with_image",
     features |-> "grid_4col", footer |-> "detailed"]

DefaultTreatment ==
    [navbar |-> "solid", hero |-> "centered_cta", features |-> "grid_3col",
     footer |-> "minimal"]

\* C19: each section renderer returns a fragment for every variant string
\* without raising, and for a variant it does not recognise the fragment is
\* the one of the kind's default treatment: navbar as 'solid', hero as
\* 'centered_cta', features as 'grid_3col', footer as 'minimal'.
C19_UnknownVariantIsDefault ==
    call.op = "render" =>
        /\ ret.status = "ok"
        /\ (call.section_type \in DOMAIN TestedVariant
            /\ call.variant # TestedVariant[call.section_type]) =>
               /\ ret.value = render(call.section_type, DefaultTreatment[call.section_type],
                                     call.dsl, call.description)
               /\ ret.value.treatment = DefaultTreatment[call.section_type]

\* C19 witness: a footer of a variant no renderer knows was rendered as the
\* minimal footer.
C19_Witness ==
    /\ call.op = "render"
    /\ call.section_type = "footer"
    /\ call.variant = "carousel"
    /\ ret = Ok([element |-> "footer", treatment |-> "minimal"])

-----------------------------------------------------------------------------
(* Pages with a pricing section, in styles of the colour table and a style *)
(* that is not in it                                                       *)

PageDSLs ==
    {[site_type |-> "saas_landing", style |-> sty, confidence |-> [num |-> 1, den |-> 1],
      sections |-> Positioned(choices)] :
        sty \in {"modern_gradient", "minimal_clean", "retro"},
        choices \in SeqsUpTo({[type |-> "navbar", variant |-> "solid"],
                              [type |-> "hero", variant |-> "centered_cta"],
                              [type |-> "pricing", variant |-> "default"]}, MaxSections)}

NextPage == \E dsl \in PageDSLs : DslToHtml(dsl, "a shop for my big red hats")

SpecPage == InitRenderer /\ [][NextPage]_vars

\* C20: within one rendered page every section fragment uses the same
\* primary/secondary colour pair, the pair the colour table gives for the
\* DSL's style, and ('#667eea', '#764ba2') for a style not in the table.
C20_OnePairPerPage ==
    call.op = "dsl_to_html" =>
        LET pair == CASE call.dsl.style = "modern_gradient" ->
                             [primary |-> "#667eea", secondary |-> "#764ba2"]
                      [] call.dsl.style = "minimal_clean" ->
                             [primary |-> "#2d3748", secondary |-> "#4a5568"]
                      [] call.dsl.style = "bold_colorful" ->
                             [primary |-> "#f56565", secondary |-> "#ed8936"]
                      [] call.dsl.style = "dark_mode" ->
                             [primary |-> "#1a202c", secondary |-> "#2d3748"]
                      [] OTHER -> [primary |-> "#667eea", secondary |-> "#764ba2"]
        IN  \A i \in 1..Len(ret.value.body) :
                LET fragment == ret.value.body[i].html
                IN  /\ "primary" \in DOMAIN fragment => fragment.primary = pair.primary
                    /\ "secondary" \in DOMAIN fragment => fragment.secondary = pair.secondary
                    /\ "accent" \in DOMAIN fragment => fragment.accent = pair.primary

-----------------------------------------------------------------------------
(* The DSL Assembler and the pipeline:                                     *)
(* SimpleMLModels.generate_complete_dsl,                                   *)
(* MLWebsiteGenerator.generate_from_description and                        *)
(* SklearnWebsiteGenerator.generate_from_description                       *)

\* any(word in desc_lower for word in words)
AnyWordIn(words, desc_lower) == \E word \in words : Contains(desc_lower, word)

\* has_footer read from the text like has_hero.
MutFeaturesFooterFromText(user_description) ==
    LET desc_lower == lower(user_description)
    IN  [has_navbar |-> TRUE,
         has_hero |-> AnyWordIn({"hero", "landing", "main"}, desc_lower),
         has_features |-> AnyWordIn({"features", "services", "benefits"}, desc_lower),
         has_footer |-> AnyWordIn({"footer"}, desc_lower)]

\* The feature record generate_complete_dsl extracts from a description.
description_features(user_description) ==
    LET desc_lower == lower(user_description)
    IN  [has_navbar |-> TRUE,
         has_hero |-> AnyWordIn({"hero", "landing", "main"}, desc_lower),
         has_features |-> AnyWordIn({"features", "services", "benefits"}, desc_lower),
         has_footer |-> TRUE]

\* The section appended in iteration i of the loop (enumerate counts from
\* 0, sequences from 1).
MutSectionCountedFromOne(section_type, i, variant) ==
    [type |-> section_type, position |-> i, variant |-> variant]

Section(section_type, i, variant) ==
    [type |-> section_type, position |-> i - 1, variant |-> variant]

generate_complete_dsl(data, templates, variants, user_description) ==
    LET features == description_features(user_description)
        classification == classify_site(data, features)
    IN  IF classification.status = "raise" THEN classification
        ELSE LET layout == generate_layout(templates, classification.site_type,
                                           classification.style)
             IN  IF layout.status = "raise" THEN layout
                 ELSE Ok([site_type |-> classification.site_type,
                          style |-> classification.style,
                          confidence |-> classification.confidence,
                          sections |->
                              [i \in 1..Len(layout.value) |->
                                  Section(layout.value[i], i,
                                          select_variant(variants,
                                                         classification.site_type,
                                                         classification.style,
                                                         layout.value[i]).value)]])

generate_from_description(data, templates, variants, description) ==
    LET dsl == generate_complete_dsl(data, templates, variants, description)
    IN  IF dsl.status = "raise" THEN dsl
        ELSE Ok([dsl |-> dsl.value, html |-> dsl_to_html(dsl.value, description)])

GenerateCompleteDsl(user_description) ==
    /\ generator = "MLWebsiteGenerator"
    /\ call' = [op |-> "generate_complete_dsl", description |-> user_description]
    /\ ret' = generate_complete_dsl(classifier_data, layout_templates,
                                    component_variants, user_description)
    /\ UNCHANGED <<store, sk_store, rendered, training, serving>>

GenerateFromDescription(description) ==
    /\ generator = "MLWebsiteGenerator"
    /\ call' = [op |-> "generate_from_description", description |-> description]
    /\ ret' = generate_from_description(classifier_data, layout_templates,
                                        component_variants, description)
    /\ UNCHANGED <<store, sk_store, rendered, training, serving>>

\* The probabilities predict_proba(...).max() may be; the forest is opaque.
Probabilities == {[num |-> 1, den |-> 2], [num |-> 1, den |-> 1]}

\* The outcomes of the loop of the sklearn generator over sections[1..n]:
\* the section lists it may build, or the exception that ends it.
RECURSIVE sklearn_sections(_, _, _, _, _, _)
sklearn_sections(selectors, encoders, site_type, style, sections, n) ==
    IF n = 0 THEN {Ok(<<>>)}
    ELSE LET before == sklearn_sections(selectors, encoders, site_type, style,
                                        sections, n - 1)
             variants == select_variant_sklearn(selectors, encoders, site_type,
                                                style, sections[n])
         IN  {b \in before : b.status = "raise"}
             \cup {IF v.status = "raise" THEN v
                   ELSE Ok(Append(b.value, Section(sections[n], n, v.value))) :
                       b \in {x \in before : x.status = "ok"}, v \in variants}

\* The outcomes of SklearnWebsiteGenerator.generate_from_description: the
\* classifiers are opaque scorers, so every label of their encoders and
\* every probability is a possible prediction.
sklearn_generate_from_description(templates, selectors, encoders, description) ==
    UNION {LET layout == sklearn_layout(templates, site_type)
           IN  IF layout.status = "raise" THEN {layout}
               ELSE {IF built.status = "raise" THEN built
                     ELSE LET dsl == [site_type |-> site_type, style |-> style,
                                      confidence |-> proba, sections |-> built.value]
                          IN  Ok([dsl |-> dsl, html |-> dsl_to_html(dsl, description)]) :
                         built \in sklearn_sections(selectors, encoders, site_type, style,
                                                    layout.value, Len(layout.value))} :
               site_type \in encoders.site_type, style \in encoders.style,
               proba \in Probabilities}

SklearnGenerateFromDescription(description) ==
    /\ generator = "SklearnWebsiteGenerator"
    /\ call' = [op |-> "sklearn_generate_from_description", description |-> description]
    /\ ret' \in sklearn_generate_from_description(sk_layout_templates, component_selectors,
                                                  label_encoders, description)
    /\ UNCHANGED <<store, sk_store, rendered, training, serving>>

\* The stores of the pipeline: the exemplars of one style and one flag
\* combination per site type, lists of at most one template (index 0 is
\* all the pipeline reads), at most one rule.
PipelineExemplars ==
    {e \in Exemplars : /\ e.style = "modern_gradient"
                       /\ e.has_navbar = e.has_footer
                       /\ e.has_hero # e.has_navbar
                       /\ e.has_navbar <=> e.site_type = "saas_landing"}

PipelineLayoutTables ==
    UNION {[D -> {<<>>} \cup {<<t>> : t \in Templates}] : D \in SUBSET SiteTypes}

PipelineVariantTables ==
    UNION {[D -> {"transparent"}] :
               D \in {K \in SUBSET {variant_key(st, "modern_gradient", k) :
                                        st \in SiteTypes, k \in {"navbar", "gallery"}} :
                          Cardinality(K) <= 1}}

PipelineEncoderTables ==
    {e \in EncoderTables : "modern_gradient" \in e.component_style}

SkPipelineLayoutTables ==
    UNION {[D -> {<<>>} \cup {<<t>> : t \in SkTemplates}] : D \in SUBSET SiteTypes}

Init ==
    /\ call = NoCall
    /\ ret = NoRet
    /\ rendered = NoWatch
    /\ NoTraining
    /\ NoRequests
    /\ \/ /\ generator = "MLWebsiteGenerator"
          /\ classifier_data \in SeqsUpTo(PipelineExemplars, MaxExemplars)
          /\ layout_templates \in PipelineLayoutTables
          /\ component_variants \in PipelineVariantTables
          /\ EmptySkStore
       \/ /\ generator = "SklearnWebsiteGenerator"
          /\ EmptyStore
          /\ sk_layout_templates \in SkPipelineLayoutTables
          /\ component_selectors \in SelectorTables
          /\ label_encoders \in PipelineEncoderTables

Next ==
    \/ \E description \in Descriptions : GenerateCompleteDsl(description)
    \/ \E description \in Descriptions : GenerateFromDescription(description)
    \/ \E description \in RenderedDescriptions :
           SklearnGenerateFromDescription(description)

Spec == Init /\ [][Next]_vars

-----------------------------------------------------------------------------
(* Claims about the pipeline                                               *)

\* C4: for every description and every Frequency Store content (an empty
\* store, a site_type without a layout template, a triple without a variant
\* rule, templates with kinds that have no renderer),
\* generate_from_description returns a DSL and a rendered document without
\* raising.
C4_GenerateNeverRaises ==
    call.op = "generate_from_description" =>
        /\ ret.status = "ok"
        /\ DOMAIN ret.value = {"dsl", "html"}

\* The DSL of the last call, when it returned one.
ProducedDsl ==
    IF call.op = "generate_complete_dsl" THEN ret.value ELSE ret.value.dsl

DslProduced ==
    /\ call.op \in {"generate_complete_dsl", "generate_from_description",
                    "sklearn_generate_from_description"}
    /\ ret.status = "ok"

\* The Layout Selector's output for the site_type of the produced DSL.
LayoutOfProducedDsl ==
    IF generator = "MLWebsiteGenerator"
    THEN generate_layout(layout_templates, ProducedDsl.site_type, ProducedDsl.style).value
    ELSE sklearn_layout(sk_layout_templates, ProducedDsl.site_type).value

\* C9: in every DSL the assembler produces (generate_complete_dsl and the
\* sklearn generate_from_description) the section at list index i has
\* position i, so the positions are 0..n-1 without gap or duplicate for any
\* n >= 0, and the kinds are the Layout Selector's output in its order.
C9_PositionsAreIndices ==
    DslProduced =>
        LET sections == ProducedDsl.sections
        IN  /\ DOMAIN sections = 1..Len(LayoutOfProducedDsl)
            /\ \A i \in DOMAIN sections :
                   /\ sections[i].position = i - 1
                   /\ sections[i].type = LayoutOfProducedDsl[i]

\* C9 witness: generate_complete_dsl produced a DSL of three sections whose
\* kinds follow a stored template that is not the default layout.
C9_Witness ==
    /\ call.op = "generate_complete_dsl"
    /\ ret.status = "ok"
    /\ Len(ret.value.sections) = 3
    /\ ret.value.sections[2].type = "gallery"
    /\ ret.value.sections[3].position = 2

-----------------------------------------------------------------------------
(* Serialising the DSL: json.dumps(result, indent=2) in the __main__ block *)
(* of simple_models.py, and json.load reading the text back. A JSON text   *)
(* is the sequence of its tokens; the whitespace indent=2 adds lies        *)
(* between tokens and is no token.                                         *)

Punct(c) == [t |-> c]

Str(s) == [t |-> "str", v |-> s]

Num(n) == [t |-> "int", v |-> n]

RECURSIVE gcd(_, _)
gcd(a, b) == IF b = 0 THEN a ELSE gcd(b, a % b)

\* A float written with two decimals, as '%.2f' writes it.
MutFloatTwoDecimals(x) ==
    [t |-> "float",
     v |-> LET hundredths == (200 * x.num + x.den) \div (2 * x.den)
           IN  [num |-> hundredths \div gcd(hundredths, 100),
                den |-> 100 \div gcd(hundredths, 100)]]

\* float.__repr__ of the quotient num / den: the shortest decimal that
\* reads back as the same float. The token stands for the value it
\* denotes, the fraction in lowest terms.
float_repr(x) ==
    [t |-> "float",
     v |-> [num |-> x.num \div gcd(x.num, x.den), den |-> x.den \div gcd(x.num, x.den)]]

\* The tokens of one section dict, its keys in insertion order.
dumps_section(section) ==
    <<Punct("{"), Str("type"), Punct(":"), Str(section.type), Punct(","),
      Str("position"), Punct(":"), Num(section.position), Punct(","),
      Str("variant"), Punct(":"), Str(section.variant), Punct("}")>>

\* The tokens of the items of sections[1..n], separated by commas.
RECURSIVE dumps_sections(_, _)
dumps_sections(sections, n) ==
    IF n = 0 THEN <<>>
    ELSE IF n = 1 THEN dumps_section(sections[1])
    ELSE dumps_sections(sections, n - 1) \o <<Punct(",")>> \o dumps_section(sections[n])

\* json.dumps of the dict generate_complete_dsl returns.
json_dumps(dsl) ==
    <<Punct("{"), Str("site_type"), Punct(":"), Str(dsl.site_type), Punct(","),
      Str("style"), Punct(":"), Str(dsl.style), Punct(","),
      Str("confidence"), Punct(":"), float_repr(dsl.confidence), Punct(","),
      Str("sections"), Punct(":"), Punct("[")>>
    \o dumps_sections(dsl.sections, Len(dsl.sections))
    \o <<Punct("]"), Punct("}")>>

\* json.load: the value that starts at token i and the index after it. An
\* object is read into a dict (a later duplicate key wins), an array into a
\* list, a string or number token into its value.
RECURSIVE parse_value(_, _)
RECURSIVE parse_members(_, _, _)
RECURSIVE parse_items(_, _, _)
parse_value(tokens, i) ==
    CASE tokens[i].t = "{" ->
             IF tokens[i + 1].t = "}" THEN [value |-> <<>>, next |-> i + 2]
             ELSE parse_members(tokens, i + 1, <<>>)
      [] tokens[i].t = "[" ->
             IF tokens[i + 1].t = "]" THEN [value |-> <<>>, next |-> i + 2]
             ELSE parse_items(tokens, i + 1, <<>>)
      [] OTHER -> [value |-> tokens[i].v, next |-> i + 1]

\* The members of an object from the key at token i on, obj being the
\* members read so far.
parse_members(tokens, i, obj) ==
    LET member == parse_value(tokens, i + 2)
        read == (tokens[i].v :> member.value) @@ obj
    IN  IF tokens[member.next].t = ","
        THEN parse_members(tokens, member.next + 1, read)
        ELSE [value |-> read, next |-> member.next + 1]

\* The items of an array from token i on, items being those read so far.
parse_items(tokens, i, items) ==
    LET item == parse_value(tokens, i)
        read == Append(items, item.value)
    IN  IF tokens[item.next].t = ","
        THEN parse_items(tokens, item.next + 1, read)
        ELSE [value |-> read, next |-> item.next + 1]

json_loads(tokens) == parse_value(tokens, 1).value

\* __main__: build the DSL of a test description and print it as JSON. The
\* value returned carries the DSL beside the text printed.
Main(test_desc) ==
    /\ generator = "MLWebsiteGenerator"
    /\ call' = [op |-> "main", description |-> test_desc]
    /\ ret' = LET result == generate_complete_dsl(classifier_data, layout_templates,
                                                  component_variants, test_desc)
              IN  IF result.status = "raise" THEN result
                  ELSE Ok([dsl |-> result.value, text |-> json_dumps(result.value)])
    /\ UNCHANGED <<store, sk_store, rendered, training, serving>>

\* The exemplars of the runs of __main__: two flag combinations, so that
\* confidences other than 1 and 1/2 occur.
MainExemplars ==
    {e \in Exemplars : e.style = "modern_gradient" /\ e.has_navbar /\ e.has_footer}

InitMain ==
    /\ call = NoCall
    /\ ret = NoRet
    /\ rendered = NoWatch
    /\ NoTraining
    /\ NoRequests
    /\ generator = "MLWebsiteGenerator"
    /\ classifier_data \in SeqsUpTo(MainExemplars, MaxExemplars)
    /\ layout_templates \in PipelineLayoutTables
    /\ component_variants \in PipelineVariantTables
    /\ EmptySkStore

NextMain == \E test_desc \in Descriptions : Main(test_desc)

SpecMain == InitMain /\ [][NextMain]_vars

\* Equality of two floats given as fractions.
FloatEq(x, y) == x.num * y.den = y.num * x.den

-----------------------------------------------------------------------------
(* LightweightMLScraper.classify_with_confidence (src/scraper_ml.py): the  *)
(* keyword classifier of the page text. A keyword table is the list of its *)
(* items in dict order.                                                    *)

site_type_keywords ==
    <<[category |-> "saas_landing",
       keywords |-> <<"saas", "platform", "software", "analytics", "dashboard",
                      "api", "integration">>],
      [category |-> "portfolio",
       keywords |-> <<"portfolio", "work", "projects", "designer", "photographer",
                      "creative">>],
      [category |-> "ecommerce",
       keywords |-> <<"shop", "store", "cart", "product", "buy", "checkout", "price">>],
      [category |-> "blog",
       keywords |-> <<"blog", "article", "post", "read", "news", "story">>],
      [category |-> "restaurant",
       keywords |-> <<"menu", "food", "dining", "restaurant", "order", "delivery">>],
      [category |-> "corporate",
       keywords |-> <<"about us", "company", "business", "services", "contact">>]>>

style_keywords ==
    <<[category |-> "modern_gradient", keywords |-> <<"gradient", "modern", "vibrant">>],
      [category |-> "minimal_clean", keywords |-> <<"minimal", "clean", "simple", "white">>],
      [category |-> "bold_colorful", keywords |-> <<"bold", "colorful", "bright">>],
      [category |-> "dark_mode", keywords |-> <<"dark", "black", "night">>],
      [category |-> "glassmorphism", keywords |-> <<"glass", "blur", "transparent">>]>>

\* text.count(keyword) from index i on: the occurrences that do not overlap,
\* found from the left.
RECURSIVE count(_, _, _)
count(text, keyword, i) ==
    IF i + Len(keyword) - 1 > Len(text) THEN 0
    ELSE IF SubSeq(text, i, i + Len(keyword) - 1) = keyword
         THEN 1 + count(text, keyword, i + Len(keyword))
         ELSE count(text, keyword, i + 1)

\* sum(text.count(keyword) for keyword in keywords), over keywords[1..n].
RECURSIVE keyword_score(_, _, _)
keyword_score(text, keywords, n) ==
    IF n = 0 THEN 0
    ELSE keyword_score(text, keywords, n - 1) + count(text, keywords[n], 1)

\* sum(scores.values()), over the first n categories.
RECURSIVE sum_scores(_, _)
sum_scores(category_scores, n) ==
    IF n = 0 THEN 0 ELSE sum_scores(category_scores, n - 1) + category_scores[n]

\* confidence <= 0.2
MutThresholdInclusive(confidence) == 5 * confidence.num <= confidence.den

\* confidence < 0.2
below_threshold(confidence) == 5 * confidence.num < confidence.den

\* scores, as the list of the values of the first n categories in dict
\* order.
RECURSIVE category_scores(_, _, _)
category_scores(text, keywords_dict, n) ==
    IF n = 0 THEN <<>>
    ELSE Append(category_scores(text, keywords_dict, n - 1),
                keyword_score(text, keywords_dict[n].keywords,
                              Len(keywords_dict[n].keywords)))

\* The function from total_score on, scores being filled.
classify_scores(scores_list, keywords_dict) ==
    LET sum == sum_scores(scores_list, Len(scores_list))
        total_score == IF sum = 0 THEN 1 ELSE sum
    IN  IF scores_list = <<>> THEN Raise("ValueError")      \* max() of an empty dict
        ELSE LET best == CHOOSE i \in 1..Len(scores_list) :
                             /\ \A j \in 1..Len(scores_list) :
                                    scores_list[j] <= scores_list[i]
                             /\ \A j \in 1..(i - 1) : scores_list[j] < scores_list[i]
                 confidence == [num |-> scores_list[best], den |-> total_score]
             IN  IF below_threshold(confidence)
                 THEN Ok([label |-> "other", confidence |-> [num |-> 1, den |-> 2]])
                 ELSE Ok([label |-> keywords_dict[best].category,
                          confidence |-> IF confidence.num > confidence.den
                                         THEN [num |-> 1, den |-> 1] ELSE confidence])

classify_with_confidence(text, keywords_dict) ==
    classify_scores(category_scores(text, keywords_dict, Len(keywords_dict)),
                    keywords_dict)

ClassifyWithConfidence(text, keywords_dict) ==
    /\ generator = "LightweightMLScraper"
    /\ call' = [op |-> "classify_with_confidence", text |-> text,
                keywords_dict |-> keywords_dict]
    /\ ret' = classify_with_confidence(text, keywords_dict)
    /\ UNCHANGED <<store, sk_store, rendered, training, serving>>

\* The page texts: the phrases chosen among a keyword of each site type
\* ('workshop' holds 'work' and 'shop') and a style keyword with a second
\* 'saas_landing' keyword, joined by blanks.
PageTexts ==
    LET phrases == <<"saas", "workshop", "blog", "menu", "company", "dark dashboard">>
    IN  {join(SelectSeq(phrases, LAMBDA phrase : phrase \in chosen)) :
            chosen \in SUBSET Range(phrases)}

InitScraper ==
    /\ generator = "LightweightMLScraper"
    /\ EmptyStore
    /\ EmptySkStore
    /\ call = NoCall
    /\ ret = NoRet
    /\ rendered = NoWatch
    /\ NoTraining
    /\ NoRequests

NextScraper ==
    \E text \in PageTexts, keywords_dict \in {site_type_keywords, style_keywords} :
        ClassifyWithConfidence(text, keywords_dict)

SpecScraper == InitScraper /\ [][NextScraper]_vars

\* The scores of the categories of the last call, their sum and their
\* maximum.
CallScores == category_scores(call.text, call.keywords_dict, Len(call.keywords_dict))

CallTotal == sum_scores(CallScores, Len(CallScores))

CallBest == CHOOSE m \in Range(CallScores) : \A x \in Range(CallScores) : x <= m

\* C15: classify_with_confidence returns a label with a confidence in
\* [0, 1] for every text and keyword table; when the best category's share
\* of the total keyword score is below 0.2, a total of zero included, the
\* result is 'other' with confidence exactly 0.5, and otherwise a category
\* of the highest score with its share as confidence.
C15_ThresholdFallback ==
    call.op = "classify_with_confidence" =>
        /\ ret.status = "ok"
        /\ IsUnitConfidence(ret.value.confidence)
        /\ IF CallTotal = 0 \/ 5 * CallBest < CallTotal
           THEN ret.value = [label |-> "other", confidence |-> [num |-> 1, den |-> 2]]
           ELSE /\ \E i \in 1..Len(CallScores) :
                       /\ call.keywords_dict[i].category = ret.value.label
                       /\ CallScores[i] = CallBest
                /\ ret.value.confidence.num * CallTotal
                       = CallBest * ret.value.confidence.den

\* C15 witness: six categories scored one each, a share of 1/6, and the
\* fallback was returned.
C15_Witness ==
    /\ call.op = "classify_with_confidence"
    /\ CallTotal = 6
    /\ CallBest = 1
    /\ ret.status = "ok"
    /\ ret.value.label = "other"

-----------------------------------------------------------------------------
(* SklearnDataPreparator.infer_variant (src/prepare_training_data.py): the *)
(* variant label given to a scraped component. A component is a dict from  *)
(* 'type' and some of its other keys to their values.                      *)

\* bool(component.get(key)): a key that is absent gives None, which is
\* falsy.
Truthy(component, key) == key \in DOMAIN component /\ component[key] = TRUE

\* has_cta tested before has_image.
MutHeroVariantCtaFirst(component) ==
    IF Truthy(component, "has_cta") THEN "centered_cta"
    ELSE IF Truthy(component, "has_image") THEN "split_screen_with_image"
    ELSE "minimal_text"

\* The branch of comp_type == 'hero'.
hero_variant(component) ==
    IF Truthy(component, "has_image") THEN "split_screen_with_image"
    ELSE IF Truthy(component, "has_cta") THEN "centered_cta"
    ELSE "minimal_text"

\* num_items > 4
MutFeaturesVariantAboveFour(component) ==
    LET num_items == IF "num_items" \in DOMAIN component THEN component.num_items ELSE 3
    IN  IF num_items > 4 THEN "grid_4col" ELSE "grid_3col"

\* The branch of comp_type == 'features'.
features_variant(component) ==
    LET num_items == IF "num_items" \in DOMAIN component THEN component.num_items ELSE 3
    IN  IF num_items >= 4 THEN "grid_4col" ELSE "grid_3col"

infer_variant(component, style) ==
    LET comp_type == component.type
    IN  CASE comp_type = "navbar" ->
                 IF style = "modern_gradient" THEN "transparent" ELSE "solid"
          [] comp_type = "hero" -> hero_variant(component)
          [] comp_type = "features" -> features_variant(component)
          [] comp_type = "footer" ->
                 IF Truthy(component, "has_links") THEN "detailed" ELSE "minimal"
          [] OTHER -> "default"

InferVariant(component, style) ==
    /\ generator = "SklearnDataPreparator"
    /\ call' = [op |-> "infer_variant", component |-> component, style |-> style]
    /\ ret' = Ok(infer_variant(component, style))
    /\ UNCHANGED <<store, sk_store, rendered, training, serving>>

\* The dicts from some of the keys to booleans.
OptionalFlags(keys) == UNION {[D -> BOOLEAN] : D \in SUBSET keys}

\* The components of the scraped sites: the keys the scrapers write for
\* each type, any of them possibly absent from the JSON.
ScrapedComponents ==
    {[type |-> "navbar"], [type |-> "pricing"], [type |-> "contact"]}
    \cup {[type |-> "hero"] @@ flags : flags \in OptionalFlags({"has_image", "has_cta"})}
    \cup {[type |-> "features"]}
    \cup {[type |-> "features", num_items |-> n] : n \in 0..MaxItems}
    \cup {[type |-> "footer"] @@ flags : flags \in OptionalFlags({"has_links"})}

\* The styles detect_style gives a site.
ScrapedStyles == {style_keywords[i].category : i \in 1..Len(style_keywords)}

InitPreparator ==
    /\ generator = "SklearnDataPreparator"
    /\ EmptyStore
    /\ EmptySkStore
    /\ call = NoCall
    /\ ret = NoRet
    /\ rendered = NoWatch
    /\ NoTraining
    /\ NoRequests

NextPreparator ==
    \E component \in ScrapedComponents, style \in ScrapedStyles :
        InferVariant(component, style)

SpecPreparator == InitPreparator /\ [][NextPreparator]_vars

\* C16: infer_variant on a hero component with a truthy has_image returns
\* 'split_screen_with_image' for every has_cta and every style; only when
\* has_image is falsy does has_cta decide between 'centered_cta' (truthy)
\* and 'minimal_text' (falsy or absent).
C16_HeroImageBeforeCta ==
    (call.op = "infer_variant" /\ call.component.type = "hero") =>
        ret = Ok(IF Truthy(call.component, "has_image") THEN "split_screen_with_image"
                 ELSE IF Truthy(call.component, "has_cta") THEN "centered_cta"
                 ELSE "minimal_text")

\* C16 witness: a hero with an image and a call to action got the split
\* screen.
C16_Witness ==
    /\ call.op = "infer_variant"
    /\ call.component = [type |-> "hero", has_image |-> TRUE, has_cta |-> TRUE]
    /\ ret = Ok("split_screen_with_image")

\* C17: infer_variant is a function of component and style: a navbar is
\* 'transparent' iff the style is 'modern_gradient' and 'solid' otherwise;
\* features are 'grid_4col' iff num_items >= 4, a missing num_items
\* counting as 3, and 'grid_3col' otherwise; a footer is 'detailed' iff
\* has_links is truthy and 'minimal' otherwise; every other type but hero
\* is 'default'.
C17_VariantByType ==
    call.op = "infer_variant" =>
        LET component == call.component
            items == IF "num_items" \in DOMAIN component THEN component.num_items ELSE 3
        IN  /\ ret.status = "ok"
            /\ component.type = "navbar" =>
                   /\ ret.value = "transparent" <=> call.style = "modern_gradient"
                   /\ ret.value \in {"transparent", "solid"}
            /\ component.type = "features" =>
                   /\ ret.value = "grid_4col" <=> items >= 4
                   /\ ret.value \in {"grid_4col", "grid_3col"}
            /\ component.type = "footer" =>
                   /\ ret.value = "detailed" <=> Truthy(component, "has_links")
                   /\ ret.value \in {"detailed", "minimal"}
            /\ component.type \notin {"navbar", "hero", "features", "footer"} =>
                   ret.value = "default"

\* C17 witness: features of exactly four items got the four-column grid.
C17_Witness ==
    /\ call.op = "infer_variant"
    /\ call.component = [type |-> "features", num_items |-> 4]
    /\ ret = Ok("grid_4col")

-----------------------------------------------------------------------------
(* Lexical feature extraction: the feature record generate_complete_dsl    *)
(* builds from the description, and                                        *)
(* SklearnWebsiteGenerator.extract_features                                *)

Flag(b) == IF b THEN 1 ELSE 0

\* The feature vector of the sklearn models; has_navbar, has_hero,
\* has_features and has_footer are its third to sixth entries.
extract_features(description) ==
    LET desc_lower == lower(description)
    IN  <<Len(split(description, 1, "")),
          Len(description),
          1,
          Flag(Contains(desc_lower, "hero") \/ Contains(desc_lower, "landing")),
          Flag(Contains(desc_lower, "features") \/ Contains(desc_lower, "services")),
          1,
          Flag(Contains(desc_lower, "pricing") \/ Contains(desc_lower, "plans")),
          Flag(Contains(desc_lower, "testimonial") \/ Contains(desc_lower, "reviews")),
          Flag(Contains(desc_lower, "contact")),
          1, 1, 1>>

ExtractFeatures(description) ==
    /\ generator = "SklearnWebsiteGenerator"
    /\ call' = [op |-> "extract_features", description |-> description]
    /\ ret' = Ok(extract_features(description))
    /\ UNCHANGED <<store, sk_store, rendered, training, serving>>

\* Descriptions with and without the words the extraction looks for.
FeatureDescriptions ==
    LET phrases == <<"Hero", "landing", "main", "Features", "services", "benefits">>
    IN  {join(SelectSeq(phrases, LAMBDA phrase : phrase \in chosen)) :
            chosen \in SUBSET Range(phrases)}

InitFeatures ==
    /\ call = NoCall
    /\ ret = NoRet
    /\ rendered = NoWatch
    /\ NoTraining
    /\ NoRequests
    /\ layout_templates = <<>>
    /\ component_variants = <<>>
    /\ EmptySkStore
    /\ \/ /\ generator = "MLWebsiteGenerator"
          /\ classifier_data \in {<<e>> : e \in CompleteExemplars}
       \/ /\ generator = "SklearnWebsiteGenerator"
          /\ classifier_data = <<>>

NextFeatures ==
    \/ \E description \in FeatureDescriptions : GenerateCompleteDsl(description)
    \/ \E description \in FeatureDescriptions : ExtractFeatures(description)

SpecFeatures == InitFeatures /\ [][NextFeatures]_vars

\* C18: for every description, feature extraction gives a record in which
\* has_navbar, has_hero, has_features and has_footer each hold a boolean
\* (0 or 1 in the feature vector of the sklearn generator), and has_navbar
\* and has_footer are true whatever the text contains.
C18_FeaturesPopulated ==
    /\ call.op = "generate_complete_dsl" =>
           LET features == description_features(call.description)
           IN  /\ DOMAIN features = FlagSet
               /\ \A flag \in FlagSet : features[flag] \in BOOLEAN
               /\ features.has_navbar
               /\ features.has_footer
    /\ call.op = "extract_features" =>
           /\ ret.status = "ok"
           /\ Len(ret.value) = 12
           /\ \A i \in 3..6 : ret.value[i] \in {0, 1}
           /\ ret.value[3] = 1
           /\ ret.value[6] = 1

\* C18 witness: a description naming neither a navbar nor a footer, with a
\* hero word and no features word, went through generate_complete_dsl.
C18_Witness ==
    /\ call.op = "generate_complete_dsl"
    /\ call.description = "main"
    /\ ret.status = "ok"
    /\ description_features(call.description) =
           [has_navbar |-> TRUE, has_hero |-> TRUE, has_features |-> FALSE,
            has_footer |-> TRUE]


-----------------------------------------------------------------------------
(* The layout tables: SklearnDataPreparator.prepare_layout_generator_data  *)
(* writes one row per scraped site to training/layout_generator_data.csv,  *)
(* and SklearnModelTrainer.train_layout_generator reads the file back and  *)
(* keeps the most common layouts of each site type. A file is the sequence *)
(* of its rows, a row the text of its cells; to_csv quotes a cell that     *)
(* holds commas and read_csv removes the quotes, so the text stands for    *)
(* both.                                                                   *)

MaxSites == 4

\* ','.join(sections)
RECURSIVE join_sections(_)
join_sections(sections) ==
    IF sections = <<>> THEN ""
    ELSE IF Len(sections) = 1 THEN sections[1]
    ELSE sections[1] \o "," \o join_sections(Tail(sections))

\* layout.split(','): the runs between the commas of layout from index i
\* on, the empty ones included, cur being the run read so far.
RECURSIVE split_layout(_, _, _)
split_layout(layout, i, cur) ==
    IF i > Len(layout) THEN <<cur>>
    ELSE IF CharAt(layout, i) = ","
         THEN <<cur>> \o split_layout(layout, i + 1, "")
         ELSE split_layout(layout, i + 1, cur \o CharAt(layout, i))

\* site.get('site_type', 'other')
site_type_of(site) ==
    IF "site_type" \in DOMAIN site THEN site.site_type ELSE "other"

\* [c['type'] for c in site.get('components', [])]
sections_of(site) ==
    IF "components" \in DOMAIN site
    THEN [i \in 1..Len(site.components) |-> site.components[i].type]
    ELSE <<>>

\* The rows prepare_layout_generator_data writes for the sites.
layout_rows(sites) ==
    [i \in 1..Len(sites) |->
        [site_type |-> site_type_of(sites[i]),
         sections |-> join_sections(sections_of(sites[i])),
         num_sections |-> Len(sections_of(sites[i]))]]

PrepareLayoutGeneratorData ==
    /\ generator = "SklearnDataPreparator"
    /\ call' = [op |-> "prepare_layout_generator_data"]
    /\ ret' = Ok(layout_rows(raw_data))
    /\ layout_generator_data' = [exists |-> TRUE, rows |-> layout_rows(raw_data)]
    /\ UNCHANGED <<store, sk_store, rendered, raw_data, serving>>

\* pd.read_csv of a text column: an empty cell is read as NaN.
read_cell(text) ==
    IF text = "" THEN [na |-> TRUE] ELSE [na |-> FALSE, value |-> text]

\* type_df['sections']: the cells of the rows of the site type, in order.
type_sections(rows, site_type) ==
    LET mine == SelectSeq(rows, LAMBDA row : row.site_type = site_type)
    IN  [i \in 1..Len(mine) |-> read_cell(mine[i].sections)]

\* The number of cells that hold the value.
occurrences(cells, value) ==
    Cardinality({i \in 1..Len(cells) : ~cells[i].na /\ cells[i].value = value})

\* Series.value_counts(): the index of the result. The NaN cells are not
\* counted, and the values are sorted by descending count with
\* sort_values' default kind, which is not a stable sort: values of equal
\* counts come in any order.
value_counts(cells) ==
    LET values == {cells[i].value : i \in {j \in 1..Len(cells) : ~cells[j].na}}
    IN  {index \in [1..Cardinality(values) -> values] :
            /\ \A i, j \in DOMAIN index : i # j => index[i] # index[j]
            /\ \A i, j \in DOMAIN index :
                   i < j => occurrences(cells, index[i]) >= occurrences(cells, index[j])}

\* [layout.split(',') for layout in layout_counts.head(3).index]
top_layouts(index) ==
    [i \in 1..(IF Len(index) < 3 THEN Len(index) ELSE 3) |->
        split_layout(index[i], 1, "")]

\* The tables train_layout_generator can build from the rows of the file.
train_layout_generator(rows) ==
    LET unique == {rows[i].site_type : i \in 1..Len(rows)}
        tops(site_type) ==
            {top_layouts(index) : index \in value_counts(type_sections(rows, site_type))}
    IN  {table \in [unique -> UNION {tops(site_type) : site_type \in unique}] :
            \A site_type \in unique : table[site_type] \in tops(site_type)}

\* train_models.py is run: a SklearnModelTrainer is built and trains the
\* layout tables that save_models writes for the generator to load.
TrainLayoutGenerator ==
    /\ layout_generator_data.exists
    /\ generator' = "SklearnModelTrainer"
    /\ call' = [op |-> "train_layout_generator"]
    /\ \E table \in train_layout_generator(layout_generator_data.rows) :
           /\ sk_layout_templates' = table
           /\ ret' = Ok(table)
    /\ UNCHANGED <<classifier_data, layout_templates, component_variants,
                   component_selectors, label_encoders, rendered, training, serving>>

\* The layouts of the scraped sites: lists of components, of which only the
\* type matters here.
ScrapedLayouts ==
    {<<>>, <<[type |-> "navbar"]>>, <<[type |-> "hero"]>>,
     <<[type |-> "navbar"], [type |-> "hero"]>>,
     <<[type |-> "navbar"], [type |-> "hero"], [type |-> "footer"]>>}

\* The scraped sites: portfolios of every layout, and sites without a
\* site type that have a navbar or nothing.
ScrapedSites ==
    {[site_type |-> "portfolio", components |-> layout] : layout \in ScrapedLayouts}
    \cup {[components |-> <<>>], [components |-> <<[type |-> "navbar"]>>]}

InitTrainer ==
    /\ generator = "SklearnDataPreparator"
    /\ EmptyStore
    /\ EmptySkStore
    /\ call = NoCall
    /\ ret = NoRet
    /\ rendered = NoWatch
    /\ raw_data \in SeqsUpTo(ScrapedSites, MaxSites) \ {<<>>}
    /\ layout_generator_data = NoFile
    /\ NoRequests

NextTrainer ==
    \/ PrepareLayoutGeneratorData
    \/ TrainLayoutGenerator

SpecTrainer == InitTrainer /\ [][NextTrainer]_vars

\* The site types of the batch.
BatchSiteTypes == {site_type_of(raw_data[i]) : i \in 1..Len(raw_data)}

\* The sites of the batch that have the site type and the layout.
SitesWith(site_type, layout) ==
    {i \in 1..Len(raw_data) : /\ site_type_of(raw_data[i]) = site_type
                              /\ sections_of(raw_data[i]) = layout}

\* C23: for each site_type of the batch train_layout_generator keeps at
\* most three templates, in descending order of their number of
\* occurrences in the batch, templates of equal counts in the order in
\* which they were first seen; the template at index 0 is a most frequent
\* layout of the site type.
C23_TopThreeByCount ==
    call.op = "train_layout_generator" =>
        \A site_type \in BatchSiteTypes :
            LET kept == sk_layout_templates[site_type]
                n(layout) == Cardinality(SitesWith(site_type, layout))
            IN  /\ Len(kept) <= 3
                /\ \A i \in 1..(Len(kept) - 1) :
                       \/ n(kept[i]) > n(kept[i + 1])
                       \/ /\ n(kept[i]) = n(kept[i + 1])
                          /\ n(kept[i]) > 0
                          /\ First(SitesWith(site_type, kept[i]))
                                 < First(SitesWith(site_type, kept[i + 1]))
                /\ kept # <<>> =>
                       \A i \in 1..Len(raw_data) :
                           site_type_of(raw_data[i]) = site_type =>
                               n(sections_of(raw_data[i])) <= n(kept[1])


-----------------------------------------------------------------------------
(* Requests served at the same time from one SimpleMLModels. A call of     *)
(* generate_complete_dsl runs in steps that interleave with the steps of   *)
(* the other calls, and a Python list is an object that several names can  *)
(* refer to: generate_layout returns the stored template itself (line 66)  *)
(* or a new list (line 69), and the DSL holds a list of its own (line      *)
(* 109). A reference names the stored template or a list of the heap, and  *)
(* the items of a list are written through the reference.                  *)

\* The requests in progress at the same time.
Requests == {"r1", "r2"}

\* self.layout_templates[site_type][0], the object itself.
StoreRef(site_type) == [to |-> "layout_templates", site_type |-> site_type]

\* A list that a request created.
HeapRef(id) == [to |-> "heap", id |-> id]

\* The items of the list that the reference names.
Items(templates, h, ref) ==
    IF ref.to = "heap" THEN h[ref.id] ELSE templates[ref.site_type][1]

\* The identity of the first object, whether or not it exists.
MutSharedId(h) == 1

\* The identity of a new object: that of no object that exists.
new_id(h) == Cardinality(DOMAIN h) + 1

\* The heap with the list of that identity holding the items.
Store(h, id, items) ==
    [j \in DOMAIN h \cup {id} |-> IF j = id THEN items ELSE h[j]]

\* ref.append(item): the stored template or the list of the heap grows.
AppendTo(ref, item) ==
    IF ref.to = "heap"
    THEN /\ heap' = Store(heap, ref.id, Append(heap[ref.id], item))
         /\ UNCHANGED layout_templates
    ELSE /\ layout_templates' =
                [layout_templates EXCEPT ![ref.site_type][1] = Append(@, item)]
         /\ UNCHANGED heap

\* The frame of a call that has just been made.
NewFrame(user_description) ==
    [pc |-> "classify", description |-> user_description, classification |-> NoRet,
     sections |-> NoRet, dsl |-> NoRet, i |-> 0, changed |-> FALSE]

\* The frame of a call that raised.
Raised(frame, exception) == [frame EXCEPT !.pc = "raised", !.dsl = exception]

\* generate_complete_dsl(user_description) is called for the request.
CallGenerateCompleteDsl(r, user_description) ==
    /\ generator = "MLWebsiteGenerator"
    /\ r \notin DOMAIN requests
    /\ requests' = requests @@ (r :> NewFrame(user_description))
    /\ UNCHANGED <<store, sk_store, rendered, training, heap, call, ret>>

\* Lines 90-99: the features and the classification.
StepClassify(r) ==
    /\ r \in DOMAIN requests
    /\ requests[r].pc = "classify"
    /\ LET frame == requests[r]
           classification ==
               classify_site(classifier_data, description_features(frame.description))
       IN  requests' =
               [requests EXCEPT ![r] =
                   IF classification.status = "raise"
                   THEN Raised(frame, classification)
                   ELSE [frame EXCEPT !.pc = "layout",
                                      !.classification = classification]]
    /\ UNCHANGED <<store, sk_store, rendered, training, heap, call, ret>>

\* Line 102: sections = self.generate_layout(...), the stored template or
\* a new list of the four default kinds.
StepLayout(r) ==
    /\ r \in DOMAIN requests
    /\ requests[r].pc = "layout"
    /\ LET frame == requests[r]
           site_type == frame.classification.site_type
       IN  IF site_type \in DOMAIN layout_templates
           THEN /\ requests' =
                       [requests EXCEPT ![r] =
                           IF layout_templates[site_type] = <<>>
                           THEN Raised(frame, Raise("IndexError"))
                           ELSE [frame EXCEPT !.pc = "build",
                                              !.sections = StoreRef(site_type)]]
                /\ UNCHANGED heap
           ELSE /\ requests' =
                       [requests EXCEPT ![r] =
                           [frame EXCEPT !.pc = "build",
                                         !.sections = HeapRef(new_id(heap))]]
                /\ heap' = Store(heap, new_id(heap),
                                 <<"navbar", "hero", "features", "footer">>)
    /\ UNCHANGED <<store, sk_store, rendered, training, call, ret>>

\* The list that 'sections': [] makes the DSL hold: a new one, whatever
\* the layout is.
MutSectionsIsLayout(layout, id) == layout

dsl_sections(layout, id) == HeapRef(id)

\* Lines 105-110: the DSL, with its own list of sections.
StepBuild(r) ==
    /\ r \in DOMAIN requests
    /\ requests[r].pc = "build"
    /\ LET frame == requests[r]
           id == new_id(heap)
       IN  /\ heap' = Store(heap, id, <<>>)
           /\ requests' =
                  [requests EXCEPT ![r] =
                      [frame EXCEPT
                          !.pc = "loop",
                          !.dsl = [site_type |-> frame.classification.site_type,
                                   style |-> frame.classification.style,
                                   confidence |-> frame.classification.confidence,
                                   sections |-> dsl_sections(frame.sections, id)]]]
    /\ UNCHANGED <<store, sk_store, rendered, training, call, ret>>

\* Lines 112-125: one iteration of the loop over the layout, or the return
\* when the layout has no item at index i.
StepLoop(r) ==
    /\ r \in DOMAIN requests
    /\ requests[r].pc = "loop"
    /\ LET frame == requests[r]
           layout == Items(layout_templates, heap, frame.sections)
       IN  IF frame.i < Len(layout)
           THEN /\ AppendTo(frame.dsl.sections,
                            Section(layout[frame.i + 1], frame.i + 1,
                                    select_variant(component_variants,
                                                   frame.classification.site_type,
                                                   frame.classification.style,
                                                   layout[frame.i + 1]).value))
                /\ requests' = [requests EXCEPT ![r].i = frame.i + 1]
           ELSE /\ requests' = [requests EXCEPT ![r].pc = "done"]
                /\ UNCHANGED <<layout_templates, heap>>
    /\ UNCHANGED <<generator, classifier_data, component_variants, sk_store,
                   rendered, training, call, ret>>

\* The DSL the request returned, with the items of its list of sections.
DslOf(r) ==
    [site_type |-> requests[r].dsl.site_type,
     style |-> requests[r].dsl.style,
     confidence |-> requests[r].dsl.confidence,
     sections |-> Items(layout_templates, heap, requests[r].dsl.sections)]

\* The caller of the request changes the DSL it got: it appends a section
\* to dsl['sections'].
ChangeDsl(r) ==
    /\ r \in DOMAIN requests
    /\ requests[r].pc = "done"
    /\ ~requests[r].changed
    /\ AppendTo(requests[r].dsl.sections,
                [type |-> "contact", position |-> Len(DslOf(r).sections),
                 variant |-> "default"])
    /\ requests' = [requests EXCEPT ![r].changed = TRUE]
    /\ UNCHANGED <<generator, classifier_data, component_variants, sk_store,
                   rendered, training, call, ret>>

\* The caller of the request renders the DSL it got.
RenderDsl(r) ==
    /\ r \in DOMAIN requests
    /\ requests[r].pc = "done"
    /\ DslToHtml(DslOf(r), requests[r].description)

\* The descriptions of the requests.
RequestDescriptions == {"", "Landing Services"}

\* The stores the requests share: 'saas_landing' has a stored template, an
\* empty list of templates or no entry, and 'portfolio' no entry; one rule
\* gives the navbar of a 'saas_landing' site a variant.
InitServing ==
    /\ generator = "MLWebsiteGenerator"
    /\ classifier_data \in SeqsUpTo(PipelineExemplars, MaxExemplars)
    /\ layout_templates \in {<<>>, [saas_landing |-> <<>>],
                             [saas_landing |-> <<<<"navbar", "hero">>>>]}
    /\ component_variants =
           (variant_key("saas_landing", "modern_gradient", "navbar") :> "transparent")
    /\ EmptySkStore
    /\ call = NoCall
    /\ ret = NoRet
    /\ rendered = NoWatch
    /\ NoTraining
    /\ NoRequests

NextServing ==
    \/ \E r \in Requests, description \in RequestDescriptions :
           CallGenerateCompleteDsl(r, description)
    \/ \E r \in Requests : StepClassify(r)
    \/ \E r \in Requests : StepLayout(r)
    \/ \E r \in Requests : StepBuild(r)
    \/ \E r \in Requests : StepLoop(r)
    \/ \E r \in Requests : ChangeDsl(r)
    \/ \E r \in Requests : RenderDsl(r)
    \/ ClassifySite(description_features("Landing Services"))
    \/ GenerateLayout("saas_landing", "modern_gradient")
    \/ SelectVariant("saas_landing", "modern_gradient", "navbar")

SpecServing == InitServing /\ [][NextServing]_vars

\* C24: no serving-time operation changes the Frequency Store: whatever
\* classify_site, generate_layout, select_variant, generate_complete_dsl
\* and dsl_to_html calls are made, no step of them changes
\* classifier_data, layout_templates or component_variants.
C24_StoreIsReadOnly ==
    [][/\ classifier_data' = classifier_data
       /\ layout_templates' = layout_templates
       /\ component_variants' = component_variants]_vars

\* C24 witness: a request that was laid out with the stored template has
\* returned a DSL of two sections, and the DSL has been rendered.
C24_Witness ==
    \E r \in DOMAIN requests :
        /\ requests[r].pc = "done"
        /\ requests[r].sections = StoreRef("saas_landing")
        /\ Len(DslOf(r).sections) = 2
        /\ call.op = "dsl_to_html"
        /\ call.dsl = DslOf(r)

\* The requests that have returned or raised.
Returned == {r \in DOMAIN requests : requests[r].pc \in {"done", "raised"}}

\* What the request would get if it ran alone.
Alone(r) ==
    generate_complete_dsl(classifier_data, layout_templates, component_variants,
                          requests[r].description)

\* What the request got.
Outcome(r) ==
    IF requests[r].pc = "raised" THEN requests[r].dsl ELSE Ok(DslOf(r))

\* C25: however the steps of the requests interleave, each request gets the
\* DSL it would get alone, and the DSLs are separate objects: a step that
\* is not the change of a request's own DSL changes neither that DSL nor
\* the stored layout templates.
C25_RequestsAreIsolated ==
    /\ [](\A r \in Returned : ~requests[r].changed => Outcome(r) = Alone(r))
    /\ [][/\ layout_templates' = layout_templates
          /\ \A r \in Returned :
                 requests'[r].changed = requests[r].changed =>
                     Outcome(r)' = Outcome(r)]_vars

\* C25 witness: both requests made a list of the default kinds, the second
\* between two steps of the first, both returned, and the caller of the
\* first changed its DSL while the second still has the DSL it would get
\* alone.
C25_Witness ==
    /\ DOMAIN requests = Requests
    /\ \A r \in Requests : requests[r].pc = "done" /\ requests[r].sections.to = "heap"
    /\ requests["r1"].sections.id < requests["r2"].sections.id
    /\ requests["r2"].sections.id < requests["r1"].dsl.sections.id
    /\ requests["r1"].changed
    /\ ~requests["r2"].changed
    /\ Outcome("r2") = Alone("r2")
    /\ Len(DslOf("r1").sections) = 5
    /\ Len(DslOf("r2").sections) = 4


-----------------------------------------------------------------------------
(* The keys of the variant table. The labels of a component_variants.json  *)
(* are the strings its training data used; select_variant is called with   *)
(* any site type, style and kind. A table of one rule is loaded and        *)
(* queried with every triple of labels.                                    *)

\* Triples of labels: site types and styles with and without an underscore.
LabelTriples ==
    {"saas", "saas_landing", "portfolio"}
        \X {"dark", "landing_dark", "minimal_clean"}
        \X {"navbar", "hero"}

InitKeys ==
    /\ generator = "MLWebsiteGenerator"
    /\ classifier_data = <<>>
    /\ layout_templates = <<>>
    /\ component_variants \in
           {(variant_key(t[1], t[2], t[3]) :> "transparent") : t \in LabelTriples}
    /\ EmptySkStore
    /\ call = NoCall
    /\ ret = NoRet
    /\ rendered = NoWatch
    /\ NoTraining
    /\ NoRequests

NextKeys == \E t \in LabelTriples : SelectVariant(t[1], t[2], t[3])

SpecKeys == InitKeys /\ [][NextKeys]_vars

\* C26: select_variant tells the rules apart by the whole (site_type,
\* style, section kind) triple: no two different triples resolve to the
\* same entry of the table, so the rule of one triple is never returned to
\* a call made for another triple.
C26_TriplesAreDistinguished ==
    call.op = "select_variant" =>
        LET asked == <<call.site_type, call.style, call.component_type>>
        IN  \A t \in LabelTriples \ {asked} :
                /\ variant_key(t[1], t[2], t[3])
                       # variant_key(asked[1], asked[2], asked[3])
                /\ variant_key(t[1], t[2], t[3]) \in DOMAIN component_variants =>
                       ret.value # component_variants[variant_key(t[1], t[2], t[3])]


-----------------------------------------------------------------------------
(* The components of a scraped page: extract_components and generate_dsl   *)
(* of LightweightMLScraper (scraper_ml.py) and of SimpleWebsiteScraper     *)
(* (scraper.py), run once by scrape_site on the parsed page. A parsed page *)
(* is what the searches of extract_components find in it: the first nav    *)
(* or header, the section and div elements in document order, those whose  *)
(* class names a feature, and the footer; an element is the record of what *)
(* the code reads from it. ml says that the scraper is the                 *)
(* LightweightMLScraper, whose components carry a confidence.              *)

MaxElements == 6

\* soup.find(...) found nothing.
NotFound == [found |-> FALSE]

\* The component with the confidence the LightweightMLScraper gives it.
scored(ml, component, percent) ==
    IF ml THEN component @@ [confidence |-> [num |-> percent, den |-> 100]]
    ELSE component

\* The hero of a section of the page.
hero(ml, section, position) ==
    scored(ml,
           [type |-> "hero", position |-> position, has_image |-> section.has_image,
            has_cta |-> section.has_cta]
               @@ (IF ml THEN <<>> ELSE [text_length |-> section.text_length]),
           85)

\* A loop without the break: a hero for every candidate of the right
\* length.
RECURSIVE MutHeroForEveryCandidate(_, _, _)
MutHeroForEveryCandidate(ml, hero_candidates, position) ==
    IF hero_candidates = <<>> THEN <<>>
    ELSE IF 50 < Head(hero_candidates).text_length /\ Head(hero_candidates).text_length < 500
         THEN <<hero(ml, Head(hero_candidates), position)>>
                  \o MutHeroForEveryCandidate(ml, Tail(hero_candidates), position + 1)
         ELSE MutHeroForEveryCandidate(ml, Tail(hero_candidates), position)

\* The loop over hero_candidates: what it appends to a list of that many
\* components, the hero of the first candidate whose text has more than 50
\* and fewer than 500 characters.
RECURSIVE hero_components(_, _, _)
hero_components(ml, hero_candidates, position) ==
    IF hero_candidates = <<>> THEN <<>>
    ELSE IF 50 < Head(hero_candidates).text_length /\ Head(hero_candidates).text_length < 500
         THEN <<hero(ml, Head(hero_candidates), position)>>
         ELSE hero_components(ml, Tail(hero_candidates), position)

extract_components(ml, soup) ==
    LET navbar ==
            IF soup.nav.found
            THEN <<scored(ml, [type |-> "navbar", position |-> 0,
                               has_logo |-> soup.nav.has_logo,
                               num_links |-> soup.nav.num_links], 95)>>
            ELSE <<>>
        \* soup.find_all(['section', 'div'], limit=5)
        with_hero == navbar \o hero_components(ml, FirstN(soup.sections, 5), Len(navbar))
        with_features ==
            IF soup.feature_sections # <<>>
            THEN Append(with_hero,
                        scored(ml, [type |-> "features", position |-> Len(with_hero),
                                    num_items |-> soup.feature_sections[1].num_items], 80))
            ELSE with_hero
    IN  IF soup.footer.found
        THEN Append(with_features,
                    scored(ml, [type |-> "footer", position |-> Len(with_features),
                                has_links |-> soup.footer.num_links > 0], 90))
        ELSE with_features

\* {k: v for k, v in c.items() if k not in keys}
props(c, keys) == [k \in DOMAIN c \ keys |-> c[k]]

generate_dsl(ml, found, style) ==
    IF ml
    THEN [layout |-> "single_page",
          style |-> style.label,
          style_confidence |-> style.confidence,
          sections |->
              [i \in 1..Len(found) |->
                  [type |-> found[i].type,
                   position |-> found[i].position,
                   confidence |-> found[i].confidence,
                   props |-> props(found[i], {"type", "position", "confidence"})]]]
    ELSE [layout |-> "single_page",
          sections |->
              [i \in 1..Len(found) |->
                  [type |-> found[i].type,
                   position |-> found[i].position,
                   props |-> props(found[i], {"type", "position"})]]]

\* scrape_site parses the page and extracts its components.
ExtractComponents(soup) ==
    /\ generator \in {"LightweightMLScraper", "SimpleWebsiteScraper"}
    /\ call = NoCall
    /\ call' = [op |-> "extract_components", soup |-> soup]
    /\ ret' = Ok(extract_components(generator = "LightweightMLScraper", soup))
    /\ UNCHANGED <<store, sk_store, rendered, training, serving>>

\* scrape_site hands the components to generate_dsl, the
\* LightweightMLScraper with the style it detected.
GenerateDsl(style) ==
    /\ call.op = "extract_components"
    /\ call' = [op |-> "generate_dsl", components |-> ret.value, style |-> style]
    /\ ret' = Ok(generate_dsl(generator = "LightweightMLScraper", ret.value, style))
    /\ UNCHANGED <<store, sk_store, rendered, training, serving>>

\* The section and div elements of a page: one too short for a hero, one
\* of the right length.
SectionElements ==
    {[text_length |-> 50, has_image |-> FALSE, has_cta |-> FALSE],
     [text_length |-> 120, has_image |-> TRUE, has_cta |-> FALSE]}

\* The parsed pages.
ParsedDocuments ==
    [nav : {NotFound, [found |-> TRUE, has_logo |-> FALSE, num_links |-> 3]},
     sections : SeqsUpTo(SectionElements, MaxElements),
     feature_sections : {<<>>, <<[num_items |-> 3]>>},
     footer : {NotFound, [found |-> TRUE, num_links |-> 0]}]

InitExtract ==
    /\ generator \in {"LightweightMLScraper", "SimpleWebsiteScraper"}
    /\ EmptyStore
    /\ EmptySkStore
    /\ call = NoCall
    /\ ret = NoRet
    /\ rendered = NoWatch
    /\ NoTraining
    /\ NoRequests

NextExtract ==
    \/ \E soup \in ParsedDocuments : ExtractComponents(soup)
    \/ GenerateDsl([label |-> "minimal_clean", confidence |-> [num |-> 6, den |-> 10]])

SpecExtract == InitExtract /\ [][NextExtract]_vars

\* The place of a kind in the order navbar, hero, features, footer; 0 for
\* any other kind.
KindRank(kind) ==
    CASE kind = "navbar" -> 1
      [] kind = "hero" -> 2
      [] kind = "features" -> 3
      [] kind = "footer" -> 4
      [] OTHER -> 0

\* C27: for every parsed page, extract_components followed by generate_dsl
\* gives a list of sections in which the position of each section is its
\* index, counted from 0, each of the kinds navbar, hero, features and
\* footer occurs at most once, and the kinds that occur are in that order.
C27_SectionsInFixedOrder ==
    call.op = "generate_dsl" =>
        LET sections == ret.value.sections
        IN  /\ \A i \in 1..Len(sections) :
                   /\ sections[i].position = i - 1
                   /\ KindRank(sections[i].type) > 0
            /\ \A i, j \in 1..Len(sections) :
                   i < j => KindRank(sections[i].type) < KindRank(sections[j].type)

\* C27 witness: a page on which no navbar and no features were found gave
\* one hero and the footer, at positions 0 and 1.
C27_Witness ==
    /\ call.op = "generate_dsl"
    /\ Len(ret.value.sections) = 2
    /\ ret.value.sections[1].type = "hero"
    /\ ret.value.sections[2].type = "footer"
    /\ ret.value.sections[2].position = 1
    /\ Len(SelectSeq(call.components, LAMBDA c : c.type = "hero")) = 1

====
